---- MODULE Spec2Model ----
\* PCAN-View logger: the CANReader worker (connect / reconnect state machine),
\* the PCANViewClone consumer (live statistics, trace buffering, transmit
\* timer) and the hardware handle they share, modelled from src/pcan_logger.py.
EXTENDS Integers, Sequences, FiniteSets, TLC

\* ------------------------------------------------------------------ constants
PCAN_ERROR_OK == 0
PCAN_ERROR_QRCVEMPTY == 3
PCAN_ERROR_ILLEGAL_PARAMETER == 262144
\* an error code of the driver that is none of the above (PCAN_ERROR_BUSOFF)
PCAN_ERROR_OTHER == 16

TRACE_ROW_LIMIT == 200
TRACE_ROWS_PER_FLUSH == 25

\* --------------------------------------------------------------------- bounds
\* failed Initialize attempts the environment may inject
MaxInitFaults == 2
\* other failed or raising driver calls (GetStatus, Read, Uninitialize)
MaxFaults == 2
\* frames the hardware delivers to Read
MaxFrames == 2
\* signals queued from the worker to the GUI thread and not yet delivered
MaxQueue == 3
\* CANReader workers the user starts (presses of Connect)
MaxReaders == 1
\* timer ticks of auto_send_messages in the connection specification
MaxTicks == 2

\* CAN identifiers on the bus (0x123, 0x124) and hardware timestamps (us)
IDs == {291, 292}
\* the identifiers the connected bus carries
BusIDs == {291}
TsSet == {0, 50000, 50500}
\* spacing of the hardware timestamps of the frames Read delivers (us)
FramePeriod == 50000

\* wall-clock reading (ms since the epoch) in the initial state
T0 == 1000
\* the scheduler specification: longest gap between two ticks of a jittering
\* timer (ms), and the number of ticks followed
MaxStep == 2
MaxSchedTicks == 3
MaxRx == 4
MaxRows == 230
MaxPending == 27
MaxSessions == 2
MaxLogRows == 5

\* conversions started, and rows of a file to convert
MaxConversions == 2
MaxConvRows == 3
\* frames written to a trace file, and data bytes of a frame
MaxTrcFrames == 2
MaxDataLen == 2
None == "None"
\* no Write call made yet for a row
NoResult == 0 - 1

VARIABLES
    \* ---- CANReader (worker thread)
    reader,            \* PCANViewClone.reader: "None" or "CANReader"
    r_pc,              \* position of run(): "none" when no thread is running
    running,           \* CANReader.running
    connected,         \* CANReader.connected
    ever_connected,    \* CANReader.ever_connected
    \* ---- hardware handle and environment
    hw_init,           \* channel initialized in the driver
    init_faults,       \* failed Initialize attempts injected so far
    faults,            \* other driver faults injected so far
    frames_read,       \* frames delivered by Read so far
    readers_started,   \* workers started so far
    now,               \* wall clock, ms (time.time() * 1000)
    ticks,             \* timeouts of auto_send_timer so far
    timer_interval,    \* interval of auto_send_timer (ms)
    timer_phase,       \* delay of its first timeout after the initial state (ms)
    hw_writes,         \* Write calls issued, per transmit row
    write_result,      \* what the row's latest Write call returned (NoResult: no call yet)
    \* ---- observation of the worker's output
    status_log,        \* status_changed values emitted by the current worker
    init_fails,        \* failed Initialize attempts of the current worker
                       \* before its first successful one
    read_outcome,      \* how the driver calls of the current loop iteration ended
    \* ---- queued signals worker -> GUI thread
    sigq,
    \* ---- PCANViewClone (GUI thread)
    gui_pc,            \* "idle", or "wait" inside reader.wait() of toggle_connection
    is_connected,
    connection_start_time,
    live_data,         \* can_id -> [count, last_ts, cycle_time]
    rx_seen,           \* frames handed to process_message, in order (observation)
    connect_mark,      \* Len(rx_seen) when the GUI last handled a connect event
    pending_trace,     \* _pending_trace
    trace_buffer,
    trace_table,
    n_rows,            \* rows ever appended to _pending_trace
    transmit_table,    \* rows [enabled, cycle, count]
    last_send_times,   \* _last_send_times: row -> ms
    \* ---- recording session
    logging,
    log_handler,       \* "None" or "open"
    log_start_time,
    recording_start_time,
    message_count,
    header_written,
    log_file,          \* lines written to the open log file, in order
    closed_logs,       \* the log files closed so far, oldest first
    log_writable,      \* whether a write to the log file succeeds (FALSE: it raises)
    log_fail_reports,  \* status messages the window has shown for failed log writes
    \* ---- background conversion (WorkerThread and its progress dialog)
    worker_thread,     \* PCANViewClone._worker_thread: "None" or "WorkerThread"
    progress_dialog,   \* _progress_dialog: "None", "shown", or "canceled" once
                       \* the user has pressed Cancel
    w_pc,              \* position of WorkerThread.run(): "none", "func", "done"
    rows_left,         \* rows of the input file the task has not processed yet
    rows_done,         \* rows it has processed
    rows_at_cancel,    \* rows_done when Cancel was pressed
    w_outcome,         \* how func ended in this run: "none", "returned", "raised"
    w_events,          \* signals this run of the worker has emitted
    w_pending,         \* those not yet delivered to on_finished / on_error
    conversions,       \* conversions started so far
    \* ---- trace file text, written and read back
    trc_frames,        \* the frames handed to write_trc_entry, in order
    trc_text,          \* the rows it wrote, each a sequence of characters
    trc_parsed         \* the rows the trace reader has parsed back, in order

readerVars == <<reader, r_pc, running, connected, ever_connected>>
envVars == <<hw_init, init_faults, faults, frames_read, readers_started>>
obsVars == <<status_log, init_fails, read_outcome>>
statVars == <<live_data, rx_seen, connect_mark>>
traceVars == <<pending_trace, trace_buffer, trace_table, n_rows>>
txVars == <<now, ticks, timer_interval, timer_phase, hw_writes, write_result,
           transmit_table,
           last_send_times>>
connVars == <<gui_pc, is_connected, connection_start_time>>
logVars == <<logging, log_handler, log_start_time, recording_start_time,
             message_count, header_written, log_file, closed_logs>>

faultVars == <<log_writable, log_fail_reports>>
trcVars == <<trc_frames, trc_text, trc_parsed>>
convVars == <<worker_thread, progress_dialog, w_pc, rows_left, rows_done,
              rows_at_cancel, w_outcome, w_events, w_pending, conversions, trcVars>>

vars == <<readerVars, envVars, obsVars, sigq, statVars, traceVars, txVars,
          connVars, logVars, faultVars, convVars>>

\* ------------------------------------------------------------ CANReader.run
\* Signals cross from the worker to the GUI thread through Qt's queued
\* connection: emit appends, the GUI thread handles the head.
StatusSig(b) == [type |-> "status", val |-> b, ID |-> 0, ts |-> 0]
MessageSig(id, t) == [type |-> "message", val |-> FALSE, ID |-> id, ts |-> t]
ErrorSig == [type |-> "error", val |-> FALSE, ID |-> 0, ts |-> 0]

\* The queue bound holds back only steps the environment can take another way
\* (a call that returns without an event); the status event after Uninitialize
\* is never held back.
CanEmit == Len(sigq) < MaxQueue

\* A fault is a driver call that fails or raises; the environment has a budget
\* of them, and one of failed Initialize attempts.
Fault(bad) ==
    IF bad THEN faults < MaxFaults /\ faults' = faults + 1
           ELSE faults' = faults

InitFault(bad) ==
    IF bad THEN init_faults < MaxInitFaults /\ init_faults' = init_faults + 1
           ELSE init_faults' = init_faults

\* status_changed.emit(b)
EmitStatus(b) ==
    /\ sigq' = Append(sigq, StatusSig(b))
    /\ status_log' = Append(status_log, b)

\* ReaderLoop that reads without checking the link status first
ReaderLoop_SkipsStatusCheck ==
    /\ r_pc = "loop"
    /\ IF running
         THEN /\ r_pc' = IF connected THEN "Read" ELSE "Initialize"
              /\ UNCHANGED connected
         ELSE IF connected
           THEN r_pc' = "UninitExit" /\ UNCHANGED connected
           ELSE r_pc' = "none" /\ connected' = FALSE
    /\ read_outcome' = "none"
    /\ UNCHANGED <<reader, running, ever_connected, envVars, status_log, init_fails,
                   sigq, statVars, traceVars, txVars, connVars, logVars>>
    /\ UNCHANGED convVars
    /\ UNCHANGED faultVars

\* ReaderLoop that never looks at self.running
ReaderLoop_IgnoresStop ==
    /\ r_pc = "loop"
    /\ r_pc' = IF connected THEN "GetStatus" ELSE "Initialize"
    /\ read_outcome' = "none"
    /\ UNCHANGED <<reader, running, connected, ever_connected, envVars, status_log,
                   init_fails, sigq, statVars, traceVars, txVars, connVars, logVars>>
    /\ UNCHANGED convVars
    /\ UNCHANGED faultVars

\* `while self.running:` and the branch on self.connected; the code after the loop
ReaderLoop ==
    /\ r_pc = "loop"
    /\ IF running
         THEN /\ r_pc' = IF connected THEN "GetStatus" ELSE "Initialize"
              /\ UNCHANGED connected
         ELSE IF connected
           THEN r_pc' = "UninitExit" /\ UNCHANGED connected
           ELSE r_pc' = "none" /\ connected' = FALSE
    /\ read_outcome' = "none"
    /\ UNCHANGED <<reader, running, ever_connected, envVars, status_log, init_fails,
                   sigq, statVars, traceVars, txVars, connVars, logVars>>
    /\ UNCHANGED convVars
    /\ UNCHANGED faultVars

\* InitializeReturn with a failed attempt reported to the GUI as a disconnect
InitializeReturn_ReportsFailure(raised, res) ==
    /\ r_pc = "Initialize"
    /\ InitFault(raised \/ res # PCAN_ERROR_OK)
    /\ IF ~raised /\ res = PCAN_ERROR_OK
         THEN /\ CanEmit
              /\ connected' = TRUE
              /\ ever_connected' = TRUE
              /\ EmitStatus(TRUE)
              /\ hw_init' = TRUE
              /\ r_pc' = "GetStatus"
              /\ UNCHANGED init_fails
         ELSE /\ CanEmit
              /\ EmitStatus(FALSE)
              /\ r_pc' = "loop"
              /\ init_fails' = IF ever_connected THEN init_fails ELSE init_fails + 1
              /\ UNCHANGED <<connected, ever_connected, hw_init>>
    /\ read_outcome' = IF raised THEN "init_raised" ELSE read_outcome
    /\ UNCHANGED <<reader, running, faults, frames_read, readers_started,
                   statVars, traceVars, txVars, connVars, logVars>>
    /\ UNCHANGED convVars
    /\ UNCHANGED faultVars

\* InitializeReturn where an exception of Initialize ends run()
InitializeReturn_RaiseEnds(raised, res) ==
    /\ r_pc = "Initialize"
    /\ InitFault(raised \/ res # PCAN_ERROR_OK)
    /\ IF raised
         THEN /\ r_pc' = "none"
              /\ init_fails' = IF ever_connected THEN init_fails ELSE init_fails + 1
              /\ UNCHANGED <<connected, ever_connected, hw_init, status_log, sigq>>
         ELSE IF res = PCAN_ERROR_OK
           THEN /\ CanEmit
                /\ connected' = TRUE
                /\ ever_connected' = TRUE
                /\ EmitStatus(TRUE)
                /\ hw_init' = TRUE
                /\ r_pc' = "GetStatus"
                /\ UNCHANGED init_fails
           ELSE /\ r_pc' = "loop"
                /\ init_fails' = IF ever_connected THEN init_fails ELSE init_fails + 1
                /\ UNCHANGED <<connected, ever_connected, hw_init, status_log, sigq>>
    /\ read_outcome' = IF raised THEN "init_raised" ELSE read_outcome
    /\ UNCHANGED <<reader, running, faults, frames_read, readers_started,
                   statVars, traceVars, txVars, connVars, logVars>>
    /\ UNCHANGED convVars
    /\ UNCHANGED faultVars

\* InitializeReturn without `self.ever_connected = True`
InitializeReturn_ForgetsEverConnected(raised, res) ==
    /\ r_pc = "Initialize"
    /\ InitFault(raised \/ res # PCAN_ERROR_OK)
    /\ IF raised
         THEN /\ CanEmit
              /\ sigq' = Append(sigq, ErrorSig)
              /\ r_pc' = "loop"
              /\ init_fails' = IF ever_connected THEN init_fails ELSE init_fails + 1
              /\ UNCHANGED <<connected, ever_connected, hw_init, status_log>>
         ELSE IF res = PCAN_ERROR_OK
           THEN /\ CanEmit
                /\ connected' = TRUE
                /\ UNCHANGED ever_connected
                /\ EmitStatus(TRUE)
                /\ hw_init' = TRUE
                /\ r_pc' = "GetStatus"
                /\ UNCHANGED init_fails
           ELSE /\ r_pc' = "loop"
                /\ init_fails' = IF ever_connected THEN init_fails ELSE init_fails + 1
                /\ UNCHANGED <<connected, ever_connected, hw_init, status_log, sigq>>
    /\ read_outcome' = IF raised THEN "init_raised" ELSE read_outcome
    /\ UNCHANGED <<reader, running, faults, frames_read, readers_started,
                   statVars, traceVars, txVars, connVars, logVars>>
    /\ UNCHANGED convVars
    /\ UNCHANGED faultVars

\* Initialize returned `res`, or raised
InitializeReturn(raised, res) ==
    /\ r_pc = "Initialize"
    /\ InitFault(raised \/ res # PCAN_ERROR_OK)
    /\ IF raised
         THEN /\ CanEmit
              /\ sigq' = Append(sigq, ErrorSig)
              /\ r_pc' = "loop"
              /\ init_fails' = IF ever_connected THEN init_fails ELSE init_fails + 1
              /\ UNCHANGED <<connected, ever_connected, hw_init, status_log>>
         ELSE IF res = PCAN_ERROR_OK
           THEN /\ CanEmit
                /\ connected' = TRUE
                /\ ever_connected' = TRUE
                /\ EmitStatus(TRUE)
                /\ hw_init' = TRUE
                /\ r_pc' = "GetStatus"
                /\ UNCHANGED init_fails
           ELSE /\ r_pc' = "loop"
                /\ init_fails' = IF ever_connected THEN init_fails ELSE init_fails + 1
                /\ UNCHANGED <<connected, ever_connected, hw_init, status_log, sigq>>
    /\ read_outcome' = IF raised THEN "init_raised" ELSE read_outcome
    /\ UNCHANGED <<reader, running, faults, frames_read, readers_started,
                   statVars, traceVars, txVars, connVars, logVars>>
    /\ UNCHANGED convVars
    /\ UNCHANGED faultVars

\* GetStatusReturn that goes on to Read whatever the status
GetStatusReturn_IgnoresStatus(raised, res) ==
    /\ r_pc = "GetStatus"
    /\ Fault(raised \/ res # PCAN_ERROR_OK)
    /\ IF raised
         THEN CanEmit /\ sigq' = Append(sigq, ErrorSig)
         ELSE UNCHANGED sigq
    /\ r_pc' = "Read"
    /\ read_outcome' = IF raised THEN "status_raised" ELSE read_outcome
    /\ UNCHANGED <<reader, running, connected, ever_connected, hw_init, init_faults,
                   frames_read, readers_started, status_log, init_fails, statVars,
                   traceVars, txVars, connVars, logVars>>
    /\ UNCHANGED convVars
    /\ UNCHANGED faultVars

\* GetStatus returned `sts`, or raised (then sts = PCAN_ERROR_ILLEGAL_PARAMETER)
GetStatusReturn(raised, res) ==
    /\ r_pc = "GetStatus"
    /\ Fault(raised \/ res # PCAN_ERROR_OK)
    /\ LET sts == IF raised THEN PCAN_ERROR_ILLEGAL_PARAMETER ELSE res IN
       /\ IF raised
            THEN CanEmit /\ sigq' = Append(sigq, ErrorSig)
            ELSE UNCHANGED sigq
       /\ r_pc' = IF sts # PCAN_ERROR_OK THEN "UninitStatus" ELSE "Read"
    /\ read_outcome' = IF raised THEN "status_raised" ELSE read_outcome
    /\ UNCHANGED <<reader, running, connected, ever_connected, hw_init, init_faults,
                   frames_read, readers_started, status_log, init_fails, statVars,
                   traceVars, txVars, connVars, logVars>>
    /\ UNCHANGED convVars
    /\ UNCHANGED faultVars

\* UninitStatusReturn without `self.connected = False`
UninitStatusReturn_StaysConnected(raised) ==
    /\ r_pc = "UninitStatus"
    /\ Fault(raised)
    /\ hw_init' = IF raised THEN hw_init ELSE FALSE
    /\ IF ever_connected
         THEN EmitStatus(FALSE)
         ELSE UNCHANGED <<sigq, status_log>>
    /\ r_pc' = "loop"
    /\ UNCHANGED <<reader, running, connected, ever_connected, init_faults, frames_read,
                   readers_started, init_fails, read_outcome,
                   statVars, traceVars, txVars, connVars, logVars>>
    /\ UNCHANGED convVars
    /\ UNCHANGED faultVars

\* link lost: Uninitialize returned (or raised, which is swallowed)
UninitStatusReturn(raised) ==
    /\ r_pc = "UninitStatus"
    /\ Fault(raised)
    /\ hw_init' = IF raised THEN hw_init ELSE FALSE
    /\ connected' = FALSE
    /\ IF ever_connected
         THEN EmitStatus(FALSE)
         ELSE UNCHANGED <<sigq, status_log>>
    /\ r_pc' = "loop"
    /\ UNCHANGED <<reader, running, ever_connected, init_faults, frames_read,
                   readers_started, init_fails, read_outcome,
                   statVars, traceVars, txVars, connVars, logVars>>
    /\ UNCHANGED convVars
    /\ UNCHANGED faultVars

\* ReadReturn with a raised exception handled like an error code: reported, and
\* the loop carries on without Uninitialize
ReadReturn_NoReconnect(raised, result, id, t) ==
    /\ r_pc = "Read"
    /\ Fault(raised \/ result \notin {PCAN_ERROR_OK, PCAN_ERROR_QRCVEMPTY})
    /\ read_outcome' = IF raised THEN "raised"
                       ELSE IF result = PCAN_ERROR_OK THEN "ok"
                       ELSE IF result = PCAN_ERROR_QRCVEMPTY THEN "empty"
                       ELSE "error"
    /\ r_pc' = "loop"
    /\ IF ~raised /\ result = PCAN_ERROR_OK
         THEN /\ CanEmit
              /\ frames_read < MaxFrames
              /\ frames_read' = frames_read + 1
              /\ sigq' = Append(sigq, MessageSig(id, t))
         ELSE IF ~raised /\ result = PCAN_ERROR_QRCVEMPTY
           THEN UNCHANGED <<sigq, frames_read>>
           ELSE /\ CanEmit
                /\ sigq' = Append(sigq, ErrorSig)
                /\ UNCHANGED frames_read
    /\ UNCHANGED <<reader, running, connected, ever_connected, hw_init, init_faults,
                   readers_started, status_log, init_fails, statVars, traceVars,
                   txVars, connVars, logVars>>
    /\ UNCHANGED convVars
    /\ UNCHANGED faultVars

\* ReadReturn that reports an empty receive queue like any other error code
ReadReturn_EmptyIsError(raised, result, id, t) ==
    /\ r_pc = "Read"
    /\ Fault(raised \/ result \notin {PCAN_ERROR_OK, PCAN_ERROR_QRCVEMPTY})
    /\ read_outcome' = IF raised THEN "raised"
                       ELSE IF result = PCAN_ERROR_OK THEN "ok"
                       ELSE IF result = PCAN_ERROR_QRCVEMPTY THEN "empty"
                       ELSE "error"
    /\ IF raised
         THEN /\ CanEmit
              /\ sigq' = Append(sigq, ErrorSig)
              /\ r_pc' = "UninitRead"
              /\ UNCHANGED frames_read
         ELSE IF result = PCAN_ERROR_OK
           THEN /\ CanEmit
                /\ frames_read < MaxFrames
                /\ frames_read' = frames_read + 1
                /\ sigq' = Append(sigq, MessageSig(id, t))
                /\ r_pc' = "loop"
           ELSE /\ CanEmit
                /\ sigq' = Append(sigq, ErrorSig)
                /\ r_pc' = "loop"
                /\ UNCHANGED frames_read
    /\ UNCHANGED <<reader, running, connected, ever_connected, hw_init, init_faults,
                   readers_started, status_log, init_fails, statVars, traceVars, txVars, connVars, logVars>>
    /\ UNCHANGED convVars
    /\ UNCHANGED faultVars

\* Read returned (result, msg, timestamp), or raised
ReadReturn(raised, result, id, t) ==
    /\ r_pc = "Read"
    /\ Fault(raised \/ result \notin {PCAN_ERROR_OK, PCAN_ERROR_QRCVEMPTY})
    /\ read_outcome' = IF raised THEN "raised"
                       ELSE IF result = PCAN_ERROR_OK THEN "ok"
                       ELSE IF result = PCAN_ERROR_QRCVEMPTY THEN "empty"
                       ELSE "error"
    /\ IF raised
         THEN /\ CanEmit
              /\ sigq' = Append(sigq, ErrorSig)
              /\ r_pc' = "UninitRead"
              /\ UNCHANGED frames_read
         ELSE IF result = PCAN_ERROR_OK
           THEN /\ CanEmit
                /\ frames_read < MaxFrames
                /\ frames_read' = frames_read + 1
                /\ sigq' = Append(sigq, MessageSig(id, t))
                /\ r_pc' = "loop"
           ELSE IF result = PCAN_ERROR_QRCVEMPTY
             THEN /\ r_pc' = "loop"
                  /\ UNCHANGED <<sigq, frames_read>>
             ELSE /\ CanEmit
                  /\ sigq' = Append(sigq, ErrorSig)
                  /\ r_pc' = "loop"
                  /\ UNCHANGED frames_read
    /\ UNCHANGED <<reader, running, connected, ever_connected, hw_init, init_faults,
                   readers_started, status_log, init_fails, statVars, traceVars, txVars, connVars, logVars>>
    /\ UNCHANGED convVars
    /\ UNCHANGED faultVars

\* Read raised: Uninitialize returned (or raised, swallowed)
UninitReadReturn(raised) ==
    /\ r_pc = "UninitRead"
    /\ Fault(raised)
    /\ hw_init' = IF raised THEN hw_init ELSE FALSE
    /\ IF ever_connected
         THEN EmitStatus(FALSE)
         ELSE UNCHANGED <<sigq, status_log>>
    /\ connected' = FALSE
    /\ r_pc' = "loop"
    /\ UNCHANGED <<reader, running, ever_connected, init_faults, frames_read,
                   readers_started, init_fails, read_outcome,
                   statVars, traceVars, txVars, connVars, logVars>>
    /\ UNCHANGED convVars
    /\ UNCHANGED faultVars

\* UninitExitReturn without the final status_changed(False)
UninitExitReturn_Silent(raised) ==
    /\ r_pc = "UninitExit"
    /\ Fault(raised)
    /\ hw_init' = IF raised THEN hw_init ELSE FALSE
    /\ connected' = FALSE
    /\ r_pc' = "none"
    /\ UNCHANGED <<reader, running, ever_connected, init_faults, frames_read,
                   readers_started, obsVars, sigq,
                   statVars, traceVars, txVars, connVars, logVars>>
    /\ UNCHANGED convVars
    /\ UNCHANGED faultVars

\* thread stopping: Uninitialize returned (or raised, swallowed); run() returns
UninitExitReturn(raised) ==
    /\ r_pc = "UninitExit"
    /\ Fault(raised)
    /\ hw_init' = IF raised THEN hw_init ELSE FALSE
    /\ IF connected /\ ever_connected
         THEN EmitStatus(FALSE)
         ELSE UNCHANGED <<sigq, status_log>>
    /\ connected' = FALSE
    /\ r_pc' = "none"
    /\ UNCHANGED <<reader, running, ever_connected, init_faults, frames_read,
                   readers_started, init_fails, read_outcome,
                   statVars, traceVars, txVars, connVars, logVars>>
    /\ UNCHANGED convVars
    /\ UNCHANGED faultVars

\* ----------------------------------------------------- PCANViewClone: helpers
\* A row of the trace view. `n` is the arrival number of the row; it stands for
\* the display_time column (wall-clock text) and tells rows apart.
TraceRow(n, dir, id, text) == [n |-> n, dir |-> dir, id |-> id, text |-> text]

\* A line of the log file.
FrameLine(num, dir, id) == [kind |-> "frame", num |-> num, dir |-> dir, id |-> id, text |-> ""]
CommentLine(text) == [kind |-> "comment", num |-> 0, dir |-> "", id |-> 0, text |-> text]
HeaderLine == [kind |-> "header", num |-> 0, dir |-> "", id |-> 0, text |-> ""]

\* write_trc_entry putting the new row ahead of the rows already written
write_trc_entry_Prepends(lf, msg_num, id, tx) ==
    IF log_handler # None /\ log_writable
      THEN <<FrameLine(msg_num, IF tx THEN "Tx" ELSE "Rx", id)>> \o lf
      ELSE lf

\* log_handler.write raises
WriteFails == log_handler # None /\ ~log_writable

\* write_trc_entry: one data row, only while a log handler exists; a write that
\* raises leaves the file as it was
write_trc_entry(lf, msg_num, id, tx) ==
    IF log_handler # None /\ log_writable
      THEN Append(lf, FrameLine(msg_num, IF tx THEN "Tx" ELSE "Rx", id))
      ELSE lf

\* CycleOf without the clamp at 0
CycleOf_NoClamp(ts_us, last_ts) == ts_us - last_ts

\* Cycle times are kept in thousandths of a millisecond, so that
\* (ts_us - last_ts) / 1000.0 ms is the integer ts_us - last_ts.
CycleOf(ts_us, last_ts) ==
    LET cycle == ts_us - last_ts IN IF cycle < 0 THEN 0 ELSE cycle

\* the live_data update of process_message
LiveUpdate(ld, can_id, ts_us) ==
    IF can_id \notin DOMAIN ld
      THEN [x \in DOMAIN ld \cup {can_id} |->
              IF x = can_id
                THEN [count |-> 1, last_ts |-> ts_us, cycle_time |-> 0]
                ELSE ld[x]]
      ELSE [ld EXCEPT ![can_id] =
              [count |-> @.count + 1, last_ts |-> ts_us,
               cycle_time |-> CycleOf(ts_us, @.last_ts)]]

\* process_message(msg, ts_us): live statistics, trace row, log row
process_message(can_id, ts_us) ==
    /\ live_data' = LiveUpdate(live_data, can_id, ts_us)
    /\ rx_seen' = Append(rx_seen, <<can_id, ts_us>>)
    /\ n_rows' = n_rows + 1
    /\ pending_trace' = Append(pending_trace, TraceRow(n_rows + 1, "Rx", can_id, ""))
    /\ IF logging /\ log_start_time # None
         THEN /\ message_count' = message_count + 1
              /\ log_file' = write_trc_entry(log_file, message_count + 1, can_id, FALSE)
              /\ log_fail_reports' = IF WriteFails THEN log_fail_reports + 1
                                                   ELSE log_fail_reports
         ELSE UNCHANGED <<message_count, log_file, log_fail_reports>>
    /\ UNCHANGED log_writable
    /\ UNCHANGED <<connect_mark, trace_buffer, trace_table, logging, log_handler,
                   log_start_time, recording_start_time, header_written, closed_logs>>

\* _log_comment_and_trace without its try/except: a write that raises ends the
\* handler there
LogCommentAndTrace_Uncaught(text) ==
    IF WriteFails
      THEN UNCHANGED <<log_file, log_fail_reports, n_rows, pending_trace>>
      ELSE /\ log_file' = IF log_handler # None THEN Append(log_file, CommentLine(text))
                                                ELSE log_file
           /\ UNCHANGED log_fail_reports
           /\ n_rows' = n_rows + 1
           /\ pending_trace' = Append(pending_trace, TraceRow(n_rows + 1, "!", 0, text))

\* _log_comment_and_trace: comment into the log (if open), event row to the queue
LogCommentAndTrace(text) ==
    /\ log_file' = IF log_handler # None /\ log_writable
                      THEN Append(log_file, CommentLine(text))
                      ELSE log_file
    /\ log_fail_reports' = IF WriteFails THEN log_fail_reports + 1 ELSE log_fail_reports
    /\ n_rows' = n_rows + 1
    /\ pending_trace' = Append(pending_trace, TraceRow(n_rows + 1, "!", 0, text))

\* on_hardware_status_changed giving each event row a sequence number
on_hardware_status_changed_CountsEvents(c) ==
    LET prev == is_connected IN
    /\ is_connected' = c
    /\ IF c /\ ~prev
         THEN /\ connection_start_time' =
                   IF recording_start_time = None THEN "set" ELSE connection_start_time
              /\ LogCommentAndTrace("CONNECTED")
              /\ connect_mark' = Len(rx_seen)
              /\ message_count' = message_count + 1
         ELSE IF ~c /\ prev
           THEN /\ LogCommentAndTrace("DISCONNECTED")
                /\ message_count' = message_count + 1
                /\ UNCHANGED <<connection_start_time, connect_mark>>
           ELSE UNCHANGED <<connection_start_time, connect_mark, log_file, n_rows,
                            pending_trace, message_count, log_fail_reports>>
    /\ UNCHANGED <<log_writable, gui_pc, live_data, rx_seen, trace_buffer, trace_table, logging,
                   log_handler, log_start_time, recording_start_time,
                   header_written, closed_logs>>

\* on_hardware_status_changed beginning the log again when the link comes back
on_hardware_status_changed_RestartsLog(c) ==
    LET prev == is_connected IN
    /\ is_connected' = c
    /\ IF c /\ ~prev
         THEN /\ connection_start_time' =
                   IF recording_start_time = None THEN "set" ELSE connection_start_time
              /\ log_file' = IF log_handler # None /\ log_writable
                                THEN log_file \o <<HeaderLine, CommentLine("CONNECTED")>>
                                ELSE log_file
              /\ log_fail_reports' = IF WriteFails THEN log_fail_reports + 1
                                                   ELSE log_fail_reports
              /\ n_rows' = n_rows + 1
              /\ pending_trace' = Append(pending_trace, TraceRow(n_rows + 1, "!", 0, "CONNECTED"))
              /\ connect_mark' = Len(rx_seen)
              /\ message_count' = 0
         ELSE IF ~c /\ prev
           THEN /\ LogCommentAndTrace("DISCONNECTED")
                /\ UNCHANGED <<connection_start_time, connect_mark, message_count>>
           ELSE UNCHANGED <<connection_start_time, connect_mark, log_file, n_rows,
                            pending_trace, message_count, log_fail_reports>>
    /\ UNCHANGED <<log_writable, gui_pc, live_data, rx_seen, trace_buffer, trace_table, logging,
                   log_handler, log_start_time, recording_start_time,
                   header_written, closed_logs>>

\* on_hardware_status_changed(connected)
on_hardware_status_changed(c) ==
    LET prev == is_connected IN
    /\ is_connected' = c
    /\ IF c /\ ~prev
         THEN /\ connection_start_time' =
                   IF recording_start_time = None THEN "set" ELSE connection_start_time
              /\ LogCommentAndTrace("CONNECTED")
              /\ connect_mark' = Len(rx_seen)
         ELSE IF ~c /\ prev
           THEN /\ LogCommentAndTrace("DISCONNECTED")
                /\ UNCHANGED <<connection_start_time, connect_mark>>
           ELSE UNCHANGED <<connection_start_time, connect_mark, log_file, n_rows,
                            pending_trace, log_fail_reports>>
    /\ UNCHANGED <<log_writable, gui_pc, live_data, rx_seen, trace_buffer, trace_table, logging,
                   log_handler, log_start_time, recording_start_time, message_count,
                   header_written, closed_logs>>

\* ---- delivery of queued signals to their slots, on the GUI thread
DeliverStatus ==
    /\ gui_pc = "idle"
    /\ sigq # <<>> /\ Head(sigq).type = "status"
    /\ on_hardware_status_changed(Head(sigq).val)
    /\ sigq' = Tail(sigq)
    /\ UNCHANGED <<readerVars, envVars, obsVars, txVars>>
    /\ UNCHANGED convVars

DeliverMessage ==
    /\ gui_pc = "idle"
    /\ sigq # <<>> /\ Head(sigq).type = "message"
    /\ process_message(Head(sigq).ID, Head(sigq).ts)
    /\ sigq' = Tail(sigq)
    /\ UNCHANGED <<readerVars, envVars, obsVars, txVars, connVars>>
    /\ UNCHANGED convVars

\* on_reader_error: status bar text only
DeliverError ==
    /\ gui_pc = "idle"
    /\ sigq # <<>> /\ Head(sigq).type = "error"
    /\ sigq' = Tail(sigq)
    /\ UNCHANGED <<readerVars, envVars, obsVars, statVars, traceVars, txVars,
                   connVars, logVars>>
    /\ UNCHANGED convVars
    /\ UNCHANGED faultVars

\* ---- toggle_connection
isRunning == r_pc # "none"

\* no worker running: create and start a CANReader
ToggleConnect ==
    /\ gui_pc = "idle"
    /\ reader = None \/ ~isRunning
    /\ readers_started < MaxReaders
    /\ readers_started' = readers_started + 1
    /\ reader' = "CANReader"
    /\ r_pc' = "loop"
    /\ running' = TRUE
    /\ connected' = FALSE
    /\ ever_connected' = FALSE
    /\ status_log' = <<>>
    /\ init_fails' = 0
    /\ read_outcome' = "none"
    /\ UNCHANGED <<hw_init, init_faults, faults, frames_read, sigq, statVars,
                   traceVars, txVars, connVars, logVars>>
    /\ UNCHANGED convVars
    /\ UNCHANGED faultVars

\* worker running: reader.stop(), then block in reader.wait(2000)
ToggleStop ==
    /\ gui_pc = "idle"
    /\ reader # None /\ isRunning
    /\ running' = FALSE
    /\ gui_pc' = "wait"
    /\ UNCHANGED <<reader, r_pc, connected, ever_connected, envVars, obsVars, sigq,
                   statVars, traceVars, txVars, is_connected, connection_start_time,
                   logVars>>
    /\ UNCHANGED convVars
    /\ UNCHANGED faultVars

\* wait() returns once run() has returned (every driver call is taken to return
\* well inside the 2000 ms); the rest of the handler
ToggleJoin ==
    /\ gui_pc = "wait"
    /\ ~isRunning
    /\ reader' = None
    /\ hw_init' = FALSE
    /\ is_connected' = FALSE
    /\ connection_start_time' = None
    /\ gui_pc' = "idle"
    /\ UNCHANGED <<r_pc, running, connected, ever_connected, init_faults, faults,
                   frames_read, readers_started, obsVars, sigq, statVars, traceVars, txVars, logVars>>
    /\ UNCHANGED convVars
    /\ UNCHANGED faultVars

\* ------------------------------------------------------ _flush_pending_trace
RECURSIVE EnforceLimit_OffByOne(_, _)
\* EnforceLimit dropping rows from the limit itself on
EnforceLimit_OffByOne(table, buf) ==
    IF Len(table) >= TRACE_ROW_LIMIT
      THEN EnforceLimit_OffByOne(Tail(table), IF buf # <<>> THEN Tail(buf) ELSE buf)
      ELSE [table |-> table, buf |-> buf]

RECURSIVE EnforceLimit(_, _)
\* while trace_table.rowCount() > max_trace_messages: drop the oldest row
EnforceLimit(table, buf) ==
    IF Len(table) > TRACE_ROW_LIMIT
      THEN EnforceLimit(Tail(table), IF buf # <<>> THEN Tail(buf) ELSE buf)
      ELSE [table |-> table, buf |-> buf]

RECURSIVE FlushLoop_OneMore(_, _, _, _)
\* FlushLoop stopping one row late
FlushLoop_OneMore(pend, table, buf, rows_this_flush) ==
    IF pend = <<>> \/ rows_this_flush > TRACE_ROWS_PER_FLUSH
      THEN [pend |-> pend, table |-> table, buf |-> buf]
      ELSE LET row == Head(pend)
               e == EnforceLimit(Append(table, row), Append(buf, row))
           IN FlushLoop_OneMore(Tail(pend), e.table, e.buf, rows_this_flush + 1)

RECURSIVE FlushLoop(_, _, _, _)
\* while self._pending_trace and rows_this_flush < TRACE_ROWS_PER_FLUSH
FlushLoop(pend, table, buf, rows_this_flush) ==
    IF pend = <<>> \/ rows_this_flush >= TRACE_ROWS_PER_FLUSH
      THEN [pend |-> pend, table |-> table, buf |-> buf]
      ELSE LET row == Head(pend)
               e == EnforceLimit(Append(table, row), Append(buf, row))
           IN FlushLoop(Tail(pend), e.table, e.buf, rows_this_flush + 1)

\* timeout of _flush_timer
flush_pending_trace ==
    /\ gui_pc = "idle"
    /\ LET f == FlushLoop(pending_trace, trace_table, trace_buffer, 0) IN
       /\ pending_trace' = f.pend
       /\ trace_table' = f.table
       /\ trace_buffer' = f.buf
    /\ UNCHANGED <<readerVars, envVars, obsVars, sigq, statVars, n_rows, txVars,
                   connVars, logVars>>
    /\ UNCHANGED convVars
    /\ UNCHANGED faultVars

\* ------------------------------------------------------- auto_send_messages
\* A cell of the cycle-time column: text float() accepts, or text it rejects.
Cell(v) == [ok |-> TRUE, v |-> v]
BadCell == [ok |-> FALSE, v |-> 0]

\* try: cycle = float(cycle_str) / except: cycle = 0
ParseCycle(c) == IF c.ok THEN c.v ELSE 0

\* LastSent with a row that has not fired yet counted from the current clock
\* reading instead of from 0
LastSent_FromClock(lst, row) == IF row \in DOMAIN lst THEN lst[row] ELSE now

\* self._last_send_times.get(row, 0)
LastSent(lst, row) == IF row \in DOMAIN lst THEN lst[row] ELSE 0

SetLastSent(lst, row, t) ==
    [r \in DOMAIN lst \cup {row} |-> IF r = row THEN t ELSE lst[r]]

\* Due with `>` for `>=`
Due_Strict(tt, lst, row, now_ms) ==
    /\ tt[row].enabled
    /\ ParseCycle(tt[row].cycle) > 0
    /\ now_ms - LastSent(lst, row) > ParseCycle(tt[row].cycle)

\* the row is due at now_ms
Due(tt, lst, row, now_ms) ==
    /\ tt[row].enabled
    /\ ParseCycle(tt[row].cycle) > 0
    /\ now_ms - LastSent(lst, row) >= ParseCycle(tt[row].cycle)

\* send_can_row that counts and records the frame whatever Write returns
send_can_row_IgnoresResult(st, row, result) ==
    LET can_id == st.tt[row].id
        called == [st EXCEPT !.hw[row] = @ + 1, !.wr[row] = result]
        logged == logging /\ log_start_time # None
    IN [called EXCEPT
          !.tt[row].count = @ + 1,
          !.mc = IF logged THEN @ + 1 ELSE @,
          !.lf = IF logged THEN write_trc_entry(@, st.mc + 1, can_id, TRUE) ELSE @,
          !.rep = IF logged /\ WriteFails THEN @ + 1 ELSE @,
          !.n = @ + 1,
          !.pend = Append(@, TraceRow(st.n + 1, "Tx", can_id, ""))]

\* _send_can_row(row), with `result` what pcan.Write returns. st carries the
\* fields the send loop changes.
send_can_row(st, row, result) ==
    LET can_id == st.tt[row].id
        called == [st EXCEPT !.hw[row] = @ + 1, !.wr[row] = result]
    IN IF result # PCAN_ERROR_OK
         THEN called
         ELSE LET logged == logging /\ log_start_time # None IN
              [called EXCEPT
                 !.tt[row].count = @ + 1,
                 !.mc = IF logged THEN @ + 1 ELSE @,
                 !.lf = IF logged THEN write_trc_entry(@, st.mc + 1, can_id, TRUE) ELSE @,
                 !.rep = IF logged /\ WriteFails THEN @ + 1 ELSE @,
                 !.n = @ + 1,
                 !.pend = Append(@, TraceRow(st.n + 1, "Tx", can_id, ""))]

RECURSIVE SendLoop_StopsAtFailure(_, _, _, _)
\* SendLoop that gives up the rest of the tick once a Write has failed
SendLoop_StopsAtFailure(st, row, now_ms, res) ==
    IF row > Len(st.tt)
      THEN st
      ELSE IF Due(st.tt, st.lst, row, now_ms)
        THEN LET sent == send_can_row(st, row, res[row])
                 next == [sent EXCEPT !.lst = SetLastSent(@, row, now_ms)]
             IN IF res[row] # PCAN_ERROR_OK
                  THEN next
                  ELSE SendLoop_StopsAtFailure(next, row + 1, now_ms, res)
        ELSE SendLoop_StopsAtFailure(st, row + 1, now_ms, res)

RECURSIVE SendLoop(_, _, _, _)
\* for row in range(self.transmit_table.rowCount())
SendLoop(st, row, now_ms, res) ==
    IF row > Len(st.tt)
      THEN st
      ELSE IF Due(st.tt, st.lst, row, now_ms)
        THEN LET sent == send_can_row(st, row, res[row]) IN
             SendLoop([sent EXCEPT !.lst = SetLastSent(@, row, now_ms)],
                      row + 1, now_ms, res)
        ELSE SendLoop(st, row + 1, now_ms, res)

\* auto_send_messages that takes a failed Write for a lost connection
auto_send_messages_FailureDisconnects(now_ms, res) ==
    /\ gui_pc = "idle"
    /\ now' = now_ms
    /\ ticks' = ticks + 1
    /\ UNCHANGED <<timer_interval, timer_phase>>
    /\ IF ~is_connected
         THEN UNCHANGED <<hw_writes, write_result, transmit_table, last_send_times,
                          pending_trace,
                          n_rows, message_count, log_file, log_fail_reports,
                          is_connected>>
         ELSE LET st0 == [tt |-> transmit_table, lst |-> last_send_times,
                          hw |-> hw_writes, wr |-> write_result,
                          pend |-> pending_trace, n |-> n_rows,
                          mc |-> message_count, lf |-> log_file,
                          rep |-> log_fail_reports]
                  st == SendLoop(st0, 1, now_ms, res)
              IN /\ transmit_table' = st.tt
                 /\ last_send_times' = st.lst
                 /\ hw_writes' = st.hw
                 /\ write_result' = st.wr
                 /\ pending_trace' = st.pend
                 /\ n_rows' = st.n
                 /\ message_count' = st.mc
                 /\ log_file' = st.lf
                 /\ log_fail_reports' = st.rep
                 /\ is_connected' =
                      (\A r \in 1..Len(st.tt) :
                          st.hw[r] # hw_writes[r] => st.tt[r].count # transmit_table[r].count)
    /\ UNCHANGED <<readerVars, envVars, obsVars, sigq, statVars, trace_buffer,
                   trace_table, log_writable, gui_pc, connection_start_time, logging, log_handler,
                   log_start_time, recording_start_time, header_written, closed_logs>>
    /\ UNCHANGED convVars

\* auto_send_messages without its `if not self.is_connected: return`
auto_send_messages_IgnoresConnection(now_ms, res) ==
    /\ gui_pc = "idle"
    /\ now' = now_ms
    /\ ticks' = ticks + 1
    /\ UNCHANGED <<timer_interval, timer_phase>>
    /\ LET st0 == [tt |-> transmit_table, lst |-> last_send_times,
                          hw |-> hw_writes, wr |-> write_result,
                          pend |-> pending_trace, n |-> n_rows,
                          mc |-> message_count, lf |-> log_file,
                          rep |-> log_fail_reports]
                  st == SendLoop(st0, 1, now_ms, res)
              IN /\ transmit_table' = st.tt
                 /\ last_send_times' = st.lst
                 /\ hw_writes' = st.hw
                 /\ write_result' = st.wr
                 /\ pending_trace' = st.pend
                 /\ n_rows' = st.n
                 /\ message_count' = st.mc
                 /\ log_file' = st.lf
                 /\ log_fail_reports' = st.rep
    /\ UNCHANGED <<readerVars, envVars, obsVars, sigq, statVars, trace_buffer,
                   trace_table, log_writable, connVars, logging, log_handler, log_start_time,
                   recording_start_time, header_written, closed_logs>>
    /\ UNCHANGED convVars

\* timeout of auto_send_timer at wall-clock time now_ms; res[row] is what Write
\* returns for that row if it is called
auto_send_messages(now_ms, res) ==
    /\ gui_pc = "idle"
    /\ now' = now_ms
    /\ ticks' = ticks + 1
    /\ UNCHANGED <<timer_interval, timer_phase>>
    /\ IF ~is_connected
         THEN UNCHANGED <<hw_writes, write_result, transmit_table, last_send_times,
                          pending_trace,
                          n_rows, message_count, log_file, log_fail_reports>>
         ELSE LET st0 == [tt |-> transmit_table, lst |-> last_send_times,
                          hw |-> hw_writes, wr |-> write_result,
                          pend |-> pending_trace, n |-> n_rows,
                          mc |-> message_count, lf |-> log_file,
                          rep |-> log_fail_reports]
                  st == SendLoop(st0, 1, now_ms, res)
              IN /\ transmit_table' = st.tt
                 /\ last_send_times' = st.lst
                 /\ hw_writes' = st.hw
                 /\ write_result' = st.wr
                 /\ pending_trace' = st.pend
                 /\ n_rows' = st.n
                 /\ message_count' = st.mc
                 /\ log_file' = st.lf
                 /\ log_fail_reports' = st.rep
    /\ UNCHANGED <<readerVars, envVars, obsVars, sigq, statVars, trace_buffer,
                   trace_table, log_writable, connVars, logging, log_handler, log_start_time,
                   recording_start_time, header_written, closed_logs>>
    /\ UNCHANGED convVars

\* --------------------------------------------------------------------- Init
\* A transmit row as add_transmit_row leaves it, with its check box and cycle cell
Job(enabled, cycle, id) == [enabled |-> enabled, cycle |-> cycle, count |-> 0, id |-> id]

EmptyMap == [x \in {} |-> 0]

\* no conversion has been started
ConvIdle ==
    /\ worker_thread = None /\ progress_dialog = None /\ w_pc = "none"
    /\ rows_left = 0 /\ rows_done = 0 /\ rows_at_cancel = 0
    /\ w_outcome = "none" /\ w_events = <<>> /\ w_pending = <<>> /\ conversions = 0
    /\ trc_frames = <<>> /\ trc_text = <<>> /\ trc_parsed = <<>>

\* PCANViewClone.__init__, with the transmit rows the user has entered
InitWith(table) ==
    /\ reader = None /\ r_pc = "none" /\ running = FALSE
    /\ connected = FALSE /\ ever_connected = FALSE
    /\ hw_init = FALSE /\ init_faults = 0 /\ faults = 0 /\ frames_read = 0
    /\ readers_started = 0
    /\ now = T0 /\ ticks = 0 /\ timer_interval = 100 /\ timer_phase = 100
    /\ hw_writes = [r \in 1..Len(table) |-> 0]
    /\ write_result = [r \in 1..Len(table) |-> NoResult]
    /\ status_log = <<>> /\ init_fails = 0 /\ read_outcome = "none"
    /\ sigq = <<>>
    /\ gui_pc = "idle" /\ is_connected = FALSE /\ connection_start_time = None
    /\ live_data = EmptyMap /\ rx_seen = <<>> /\ connect_mark = 0
    /\ pending_trace = <<>> /\ trace_buffer = <<>> /\ trace_table = <<>> /\ n_rows = 0
    /\ transmit_table = table
    /\ last_send_times = EmptyMap
    /\ logging = FALSE /\ log_handler = None /\ log_start_time = None
    /\ recording_start_time = None /\ message_count = 0 /\ header_written = FALSE
    /\ log_file = <<>> /\ closed_logs = <<>>
    /\ log_writable = TRUE /\ log_fail_reports = 0
    /\ ConvIdle

\* the window with one enabled job of the dialog's default cycle, 100 ms
Init == InitWith(<<Job(TRUE, Cell(100), 291)>>)

\* The window once the first worker has connected and the GUI has handled its
\* status_changed(true), with the transmit rows the user has entered, a timer of
\* the given interval and its first timeout `phase` ms away.
ConnectedWith(table, interval, phase) ==
    /\ reader = "CANReader" /\ r_pc = "GetStatus" /\ running = TRUE
    /\ connected = TRUE /\ ever_connected = TRUE
    /\ hw_init = TRUE /\ init_faults = 0 /\ faults = 0 /\ frames_read = 0
    /\ readers_started = 1
    /\ now = T0 /\ ticks = 0 /\ timer_interval = interval /\ timer_phase = phase
    /\ hw_writes = [r \in 1..Len(table) |-> 0]
    /\ write_result = [r \in 1..Len(table) |-> NoResult]
    /\ status_log = <<TRUE>> /\ init_fails = 0 /\ read_outcome = "none"
    /\ sigq = <<>>
    /\ gui_pc = "idle" /\ is_connected = TRUE /\ connection_start_time = "set"
    /\ live_data = EmptyMap /\ rx_seen = <<>> /\ connect_mark = 0
    /\ pending_trace = <<TraceRow(1, "!", 0, "CONNECTED")>>
    /\ trace_buffer = <<>> /\ trace_table = <<>> /\ n_rows = 1
    /\ transmit_table = table
    /\ last_send_times = EmptyMap
    /\ logging = FALSE /\ log_handler = None /\ log_start_time = None
    /\ recording_start_time = None /\ message_count = 0 /\ header_written = FALSE
    /\ log_file = <<>> /\ closed_logs = <<>>
    /\ log_writable = TRUE /\ log_fail_reports = 0
    /\ ConvIdle

\* the same with a recording session just started, and the Initialize failures
\* the environment has in store all behind it
RecordingWith(table, interval, phase) ==
    /\ reader = "CANReader" /\ r_pc = "GetStatus" /\ running = TRUE
    /\ connected = TRUE /\ ever_connected = TRUE
    /\ hw_init = TRUE /\ init_faults = MaxInitFaults /\ faults = 0 /\ frames_read = 0
    /\ readers_started = 1
    /\ now = T0 /\ ticks = 0 /\ timer_interval = interval /\ timer_phase = phase
    /\ hw_writes = [r \in 1..Len(table) |-> 0]
    /\ write_result = [r \in 1..Len(table) |-> NoResult]
    /\ status_log = <<TRUE>> /\ init_fails = 0 /\ read_outcome = "none"
    /\ sigq = <<>>
    /\ gui_pc = "idle" /\ is_connected = TRUE /\ connection_start_time = "set"
    /\ live_data = EmptyMap /\ rx_seen = <<>> /\ connect_mark = 0
    /\ pending_trace = <<TraceRow(1, "!", 0, "CONNECTED")>>
    /\ trace_buffer = <<>> /\ trace_table = <<>> /\ n_rows = 1
    /\ transmit_table = table
    /\ last_send_times = EmptyMap
    /\ logging = TRUE /\ log_handler = "open" /\ log_start_time = "set"
    /\ recording_start_time = "set" /\ message_count = 0 /\ header_written = TRUE
    /\ log_file = <<HeaderLine>> /\ closed_logs = <<>>
    /\ log_writable = TRUE /\ log_fail_reports = 0
    /\ ConvIdle

\* ------------------------------------------------- the environment's choices
StatusResults == {PCAN_ERROR_OK, PCAN_ERROR_OTHER}
ReadResults == {PCAN_ERROR_OK, PCAN_ERROR_QRCVEMPTY, PCAN_ERROR_OTHER}
WriteResults == {PCAN_ERROR_OK, PCAN_ERROR_OTHER}

HwInitialize == \E raised \in BOOLEAN, res \in StatusResults : InitializeReturn(raised, res)
HwGetStatus == \E raised \in BOOLEAN, res \in StatusResults : GetStatusReturn(raised, res)
HwUninitStatus == \E raised \in BOOLEAN : UninitStatusReturn(raised)
\* the bus delivers its k-th frame FramePeriod us after the one before
HwRead ==
    \E raised \in BOOLEAN, result \in ReadResults, id \in BusIDs :
        ReadReturn(raised, result, id, frames_read * FramePeriod)
HwUninitRead == \E raised \in BOOLEAN : UninitReadReturn(raised)
HwUninitExit == \E raised \in BOOLEAN : UninitExitReturn(raised)

\* when the timer's next timeout is due
NextTickTime == now + (IF ticks = 0 THEN timer_phase ELSE timer_interval)

\* timeout of auto_send_timer, on time
TimerTick ==
    /\ ticks < MaxTicks
    /\ \E res \in [1..Len(transmit_table) -> WriteResults] :
          auto_send_messages(NextTickTime, res)

ReaderNext ==
    \/ ReaderLoop
    \/ HwInitialize
    \/ HwGetStatus
    \/ HwUninitStatus
    \/ HwRead
    \/ HwUninitRead
    \/ HwUninitExit

\* the worker and the GUI thread's connection handling
Next ==
    \/ ReaderNext
    \/ DeliverStatus
    \/ DeliverMessage
    \/ DeliverError
    \/ ToggleConnect
    \/ ToggleStop
    \/ ToggleJoin

Spec == Init /\ [][Next]_vars

\* A connected worker and the window that may stop it. The operating system
\* keeps scheduling the worker thread, and every driver call it makes returns:
\* whichever step of run() is next is eventually taken.
InitStop == ConnectedWith(<<Job(TRUE, Cell(100), 291)>>, 100, 100)

NextStop ==
    \/ ReaderNext
    \/ DeliverStatus
    \/ DeliverMessage
    \/ DeliverError
    \/ ToggleStop
    \/ ToggleJoin

SpecStop == InitStop /\ [][NextStop]_vars /\ WF_vars(ReaderNext)

\* the same, with the transmit timer running
NextHandle ==
    \/ Next
    \/ TimerTick

SpecHandle == Init /\ [][NextHandle]_vars

\* ------------------------------------------------ the transmit scheduler alone
\* the user clicks the Enable check box of a row
ToggleEnable(row) ==
    /\ gui_pc = "idle"
    /\ row \in 1..Len(transmit_table)
    /\ transmit_table' = [transmit_table EXCEPT ![row].enabled = ~@]
    /\ UNCHANGED <<readerVars, envVars, obsVars, sigq, statVars, traceVars, now, ticks,
                   timer_interval, timer_phase, hw_writes, write_result,
                   last_send_times, connVars,
                   logVars>>
    /\ UNCHANGED convVars
    /\ UNCHANGED faultVars

UserToggleEnable == \E row \in 1..Len(transmit_table) : ToggleEnable(row)

\* timeout of a timer that jitters: up to MaxStep ms after the previous one
SchedTick ==
    /\ ticks < MaxSchedTicks
    /\ \E dt \in 1..MaxStep, res \in [1..Len(transmit_table) -> WriteResults] :
          auto_send_messages(now + dt, res)

\* cycle cells a user can type: zero, negative, not a number, 2 ms, 3 ms
CycleCells == {Cell(0), Cell(-5), BadCell, Cell(2), Cell(3)}

SchedTables ==
    { <<Job(e1, c1, 291), Job(e2, c2, 292)>> :
        e1 \in BOOLEAN, c1 \in CycleCells, e2 \in BOOLEAN, c2 \in {BadCell, Cell(0), Cell(3)} }

\* two transmit rows, the window connected (recording or not) or not yet connected
InitSched ==
    \E table \in SchedTables :
        \/ ConnectedWith(table, 1, 1)
        \/ RecordingWith(table, 1, 1)
        \/ InitWith(table)

NextSched ==
    \/ SchedTick
    \/ UserToggleEnable

SpecSched == InitSched /\ [][NextSched]_vars

\* a sequence without its k-th element
RemoveAt(seq, k) == SubSeq(seq, 1, k - 1) \o SubSeq(seq, k + 1, Len(seq))

\* show_context_menu, "Delete Selected": transmit_table.removeRow(selected).
\* The rows below move up by one; _last_send_times is not touched.
RemoveRow(selected) ==
    /\ gui_pc = "idle"
    /\ selected \in 1..Len(transmit_table)
    /\ transmit_table' = RemoveAt(transmit_table, selected)
    /\ hw_writes' = RemoveAt(hw_writes, selected)
    /\ write_result' = RemoveAt(write_result, selected)
    /\ UNCHANGED <<readerVars, envVars, obsVars, sigq, statVars, traceVars, now, ticks,
                   timer_interval, timer_phase, last_send_times, connVars, logVars>>
    /\ UNCHANGED convVars
    /\ UNCHANGED faultVars

UserRemoveRow == \E selected \in 1..Len(transmit_table) : RemoveRow(selected)

\* the scheduler with a user who also deletes rows
NextRemove ==
    \/ SchedTick
    \/ UserToggleEnable
    \/ UserRemoveRow

SpecRemove == InitSched /\ [][NextRemove]_vars

\* ---- one enabled job under a timer that is exactly periodic
\* (cycle, timer interval) in ms, and the length of the observed window
\* a 100 ms job ticked every 10 ms, and a 250 ms job under the 100 ms the window
\* starts auto_send_timer with
PeriodicConfigs == {[cycle |-> 100, interval |-> 10], [cycle |-> 250, interval |-> 100]}
Window == [duration |-> 1005]

\* the job has just been enabled, the window is connected, and the first timeout
\* comes 0 .. interval-1 ms later
InitPeriodic ==
    \E c \in PeriodicConfigs : \E phase \in 0..(c.interval - 1) :
        ConnectedWith(<<Job(TRUE, Cell(c.cycle), 291)>>, c.interval, phase)

\* the timer's next timeout falls after the window
WindowOver == NextTickTime > T0 + Window.duration

\* timeout of auto_send_timer, on time, inside the window
WindowTick ==
    /\ ~WindowOver
    /\ \E res \in [1..Len(transmit_table) -> WriteResults] :
          auto_send_messages(NextTickTime, res)

NextPeriodic == WindowTick

SpecPeriodic == InitPeriodic /\ [][NextPeriodic]_vars

\* ------------------------------------------------------- recording session
\* LogFileHandler(filename): a new, empty file
NewLogFile == <<>>

\* write_trc_header: once per session, and only into an open file
write_trc_header(lf, written, handler) ==
    IF written THEN lf
    ELSE IF handler # None THEN Append(lf, HeaderLine) ELSE lf

\* start_logging without `self.header_written = False`
start_logging_StaleHeaderFlag(opened) ==
    /\ closed_logs' = IF log_handler # None THEN Append(closed_logs, log_file)
                                            ELSE closed_logs
    /\ UNCHANGED log_writable
    /\ IF ~opened
         THEN /\ log_handler' = None
              /\ log_file' = IF log_handler # None THEN <<>> ELSE log_file
              /\ UNCHANGED <<logging, log_start_time, recording_start_time,
                             message_count, header_written, log_fail_reports>>
         ELSE /\ log_handler' = "open"
              /\ log_start_time' = "set"
              /\ message_count' = 0
              /\ IF log_writable
                   THEN /\ log_file' = write_trc_header(NewLogFile, header_written, "open")
                        /\ header_written' = TRUE
                        /\ recording_start_time' = "set"
                        /\ logging' = TRUE
                        /\ UNCHANGED log_fail_reports
                   ELSE \* the header's write raises: "Logging Error", no session
                        /\ log_file' = NewLogFile
                        /\ header_written' = FALSE
                        /\ log_fail_reports' = log_fail_reports + 1
                        /\ UNCHANGED <<recording_start_time, logging>>

\* start_logging without `self.message_count = 0`
start_logging_KeepsCount(opened) ==
    /\ closed_logs' = IF log_handler # None THEN Append(closed_logs, log_file)
                                            ELSE closed_logs
    /\ UNCHANGED log_writable
    /\ IF ~opened
         THEN /\ log_handler' = None
              /\ log_file' = IF log_handler # None THEN <<>> ELSE log_file
              /\ UNCHANGED <<logging, log_start_time, recording_start_time,
                             message_count, header_written, log_fail_reports>>
         ELSE /\ log_handler' = "open"
              /\ log_start_time' = "set"
              /\ UNCHANGED message_count
              /\ IF log_writable
                   THEN /\ log_file' = write_trc_header(NewLogFile, FALSE, "open")
                        /\ header_written' = TRUE
                        /\ recording_start_time' = "set"
                        /\ logging' = TRUE
                        /\ UNCHANGED log_fail_reports
                   ELSE \* the header's write raises: "Logging Error", no session
                        /\ log_file' = NewLogFile
                        /\ header_written' = FALSE
                        /\ log_fail_reports' = log_fail_reports + 1
                        /\ UNCHANGED <<recording_start_time, logging>>

\* start_logging(filename); `opened` is whether LogFileHandler(filename) returns
\* a handler (otherwise it raises and the except clause reports it)
start_logging(opened) ==
    /\ closed_logs' = IF log_handler # None THEN Append(closed_logs, log_file)
                                            ELSE closed_logs
    /\ UNCHANGED log_writable
    /\ IF ~opened
         THEN /\ log_handler' = None
              /\ log_file' = IF log_handler # None THEN <<>> ELSE log_file
              /\ UNCHANGED <<logging, log_start_time, recording_start_time,
                             message_count, header_written, log_fail_reports>>
         ELSE /\ log_handler' = "open"
              /\ log_start_time' = "set"
              /\ message_count' = 0
              /\ IF log_writable
                   THEN /\ log_file' = write_trc_header(NewLogFile, FALSE, "open")
                        /\ header_written' = TRUE
                        /\ recording_start_time' = "set"
                        /\ logging' = TRUE
                        /\ UNCHANGED log_fail_reports
                   ELSE \* the header's write raises: "Logging Error", no session
                        /\ log_file' = NewLogFile
                        /\ header_written' = FALSE
                        /\ log_fail_reports' = log_fail_reports + 1
                        /\ UNCHANGED <<recording_start_time, logging>>

\* click on "Start Logging" (enabled while no session runs), a file chosen
ask_log_filename ==
    /\ gui_pc = "idle"
    /\ ~logging
    /\ is_connected
    /\ Len(closed_logs) < MaxSessions
    /\ \E opened \in BOOLEAN : start_logging(opened)
    /\ UNCHANGED <<readerVars, envVars, obsVars, sigq, statVars, traceVars, txVars,
                   connVars>>
    /\ UNCHANGED convVars

\* click on "Stop Logging" (enabled while a session runs)
stop_logging ==
    /\ gui_pc = "idle"
    /\ logging
    /\ logging' = FALSE
    /\ recording_start_time' = None
    /\ IF log_handler # None
         THEN /\ closed_logs' = Append(closed_logs, log_file)
              /\ log_file' = <<>>
         ELSE UNCHANGED <<closed_logs, log_file>>
    /\ log_handler' = None
    /\ UNCHANGED <<log_start_time, message_count, header_written>>
    /\ UNCHANGED <<readerVars, envVars, obsVars, sigq, statVars, traceVars, txVars,
                   connVars>>
    /\ UNCHANGED convVars
    /\ UNCHANGED faultVars

\* ---- the recorder beside the slots that write to it
\* message_received: the next frame of the bus handed to process_message
LogFrame ==
    /\ gui_pc = "idle"
    /\ n_rows < MaxLogRows
    /\ process_message(291, Len(rx_seen) * FramePeriod)
    /\ UNCHANGED <<readerVars, envVars, obsVars, sigq, txVars, connVars>>
    /\ UNCHANGED convVars

\* status_changed: the link's next change handed to on_hardware_status_changed
LogStatusEvent ==
    /\ gui_pc = "idle"
    /\ n_rows < MaxLogRows
    /\ on_hardware_status_changed(~is_connected)
    /\ UNCHANGED <<readerVars, envVars, obsVars, sigq, txVars>>
    /\ UNCHANGED convVars

InitLog == ConnectedWith(<<Job(TRUE, Cell(100), 291)>>, 100, 100)

NextLog ==
    \/ ask_log_filename
    \/ stop_logging
    \/ LogFrame
    \/ LogStatusEvent
    \/ TimerTick

SpecLog == InitLog /\ [][NextLog]_vars

\* ---- the recorder with a log file that can become unwritable (disk full,
\* medium removed) and writable again
LogBecomesUnwritable ==
    /\ log_writable
    /\ log_writable' = FALSE
    /\ UNCHANGED <<readerVars, envVars, obsVars, sigq, statVars, traceVars, txVars,
                   connVars, logVars, log_fail_reports, convVars>>

LogBecomesWritable ==
    /\ ~log_writable
    /\ log_writable' = TRUE
    /\ UNCHANGED <<readerVars, envVars, obsVars, sigq, statVars, traceVars, txVars,
                   connVars, logVars, log_fail_reports, convVars>>

\* a session under way
InitLogFault == RecordingWith(<<Job(TRUE, Cell(100), 291)>>, 100, 100)

NextLogFault ==
    \/ LogFrame
    \/ LogStatusEvent
    \/ TimerTick
    \/ LogBecomesUnwritable
    \/ LogBecomesWritable

SpecLogFault == InitLogFault /\ [][NextLogFault]_vars

\* sessions started and stopped on a file that can become unwritable
NextLogStart ==
    \/ ask_log_filename
    \/ stop_logging
    \/ LogFrame
    \/ LogStatusEvent
    \/ LogBecomesUnwritable
    \/ LogBecomesWritable

SpecLogStart == InitLog /\ [][NextLogStart]_vars

\* ---- a recording session beside the running worker and the transmit timer
InitRecord == RecordingWith(<<Job(TRUE, Cell(100), 291)>>, 100, 100)

\* the worker is never stopped here
NextRecord ==
    \/ ReaderLoop
    \/ HwInitialize
    \/ HwGetStatus
    \/ HwUninitStatus
    \/ HwRead
    \/ HwUninitRead
    \/ DeliverStatus
    \/ DeliverMessage
    \/ DeliverError
    \/ TimerTick

SpecRecord == InitRecord /\ [][NextRecord]_vars

\* the same with a user who presses Disconnect
NextRecordStop ==
    \/ NextRecord
    \/ HwUninitExit
    \/ ToggleStop
    \/ ToggleJoin

SpecRecordStop == InitRecord /\ [][NextRecordStop]_vars

\* -------------------------------------------------- live statistics alone
\* The slot process_message run on MaxRx frames of any ID and timestamp.
RxFrame ==
    /\ gui_pc = "idle"
    /\ Len(rx_seen) < MaxRx
    /\ \E id \in IDs, t \in TsSet : process_message(id, t)
    /\ UNCHANGED <<readerVars, envVars, obsVars, sigq, txVars, connVars>>
    /\ UNCHANGED convVars

InitStats == ConnectedWith(<<Job(TRUE, Cell(100), 291)>>, 100, 100)

SpecStats == InitStats /\ [][RxFrame]_vars

\* ------------------------------------------------------ trace display alone
\* Frames arrive one FramePeriod apart and queue up for the flush timer.
TraceFrame ==
    /\ gui_pc = "idle"
    /\ n_rows < MaxRows
    /\ Len(pending_trace) < MaxPending
    /\ process_message(291, n_rows * FramePeriod)
    /\ UNCHANGED <<readerVars, envVars, obsVars, sigq, txVars, connVars>>
    /\ UNCHANGED convVars

InitTrace == ConnectedWith(<<Job(TRUE, Cell(100), 291)>>, 100, 100)

NextTrace ==
    \/ TraceFrame
    \/ flush_pending_trace

SpecTrace == InitTrace /\ [][NextTrace]_vars

\* ------------------------------------------------- background conversion
\* convert_trc_to_csv / convert_log_to_csv: the user has chosen the files, and
\* _start_background_task_with_progress shows the dialog and starts a
\* WorkerThread on a task over a file of `total` rows. One conversion at a time.
StartConversion(total) ==
    /\ gui_pc = "idle"
    /\ worker_thread = None
    /\ conversions < MaxConversions
    /\ conversions' = conversions + 1
    /\ worker_thread' = "WorkerThread"
    /\ progress_dialog' = "shown"
    /\ w_pc' = "func"
    /\ rows_left' = total
    /\ rows_done' = 0
    /\ rows_at_cancel' = 0
    /\ w_outcome' = "none"
    /\ w_events' = <<>>
    /\ UNCHANGED w_pending
    /\ UNCHANGED <<readerVars, envVars, obsVars, sigq, statVars, traceVars, txVars,
                   connVars, logVars, trcVars>>
    /\ UNCHANGED faultVars

UserStartConversion == \E total \in 0..MaxConvRows : StartConversion(total)

\* the task converts the next row of its input. It is called with the file
\* paths only and has nothing to consult between rows.
ConvertRow ==
    /\ w_pc = "func"
    /\ rows_left > 0
    /\ rows_left' = rows_left - 1
    /\ rows_done' = rows_done + 1
    /\ UNCHANGED <<worker_thread, progress_dialog, w_pc, rows_at_cancel, w_outcome,
                   w_events, w_pending, conversions>>
    /\ UNCHANGED <<readerVars, envVars, obsVars, sigq, statVars, traceVars, txVars,
                   connVars, logVars, trcVars>>
    /\ UNCHANGED faultVars

\* WorkerThread.run: func raised, and nothing is emitted
ConvertRaise_Silent ==
    /\ w_pc = "func"
    /\ w_outcome' = "raised"
    /\ w_pc' = "done"
    /\ UNCHANGED <<worker_thread, progress_dialog, rows_left, rows_done,
                   rows_at_cancel, w_events, w_pending, conversions>>
    /\ UNCHANGED <<readerVars, envVars, obsVars, sigq, statVars, traceVars, txVars,
                   connVars, logVars, trcVars>>
    /\ UNCHANGED faultVars

\* WorkerThread.run: func raised; except Exception: error_signal.emit
ConvertRaise ==
    /\ w_pc = "func"
    /\ w_outcome' = "raised"
    /\ w_events' = Append(w_events, "error")
    /\ w_pending' = Append(w_pending, "error")
    /\ w_pc' = "done"
    /\ UNCHANGED <<worker_thread, progress_dialog, rows_left, rows_done,
                   rows_at_cancel, conversions>>
    /\ UNCHANGED <<readerVars, envVars, obsVars, sigq, statVars, traceVars, txVars,
                   connVars, logVars, trcVars>>
    /\ UNCHANGED faultVars

\* WorkerThread.run: func returned after its last row; finished_signal.emit
ConvertReturn ==
    /\ w_pc = "func"
    /\ rows_left = 0
    /\ w_outcome' = "returned"
    /\ w_events' = Append(w_events, "finished")
    /\ w_pending' = Append(w_pending, "finished")
    /\ w_pc' = "done"
    /\ UNCHANGED <<worker_thread, progress_dialog, rows_left, rows_done,
                   rows_at_cancel, conversions>>
    /\ UNCHANGED <<readerVars, envVars, obsVars, sigq, statVars, traceVars, txVars,
                   connVars, logVars, trcVars>>
    /\ UNCHANGED faultVars

\* the user presses Cancel: the dialog hides itself and on_cancel shows a notice
\* and changes the label; nothing is passed to the worker
CancelConversion ==
    /\ gui_pc = "idle"
    /\ progress_dialog = "shown"
    /\ progress_dialog' = "canceled"
    /\ rows_at_cancel' = rows_done
    /\ UNCHANGED <<worker_thread, w_pc, rows_left, rows_done, w_outcome, w_events,
                   w_pending, conversions>>
    /\ UNCHANGED <<readerVars, envVars, obsVars, sigq, statVars, traceVars, txVars,
                   connVars, logVars, trcVars>>
    /\ UNCHANGED faultVars

\* on_finished / on_error, on the GUI thread
DeliverConversionResult ==
    /\ gui_pc = "idle"
    /\ w_pending # <<>>
    /\ w_pending' = Tail(w_pending)
    /\ progress_dialog' = None
    /\ worker_thread' = None
    /\ UNCHANGED <<w_pc, rows_left, rows_done, rows_at_cancel, w_outcome, w_events,
                   conversions>>
    /\ UNCHANGED <<readerVars, envVars, obsVars, sigq, statVars, traceVars, txVars,
                   connVars, logVars, trcVars>>
    /\ UNCHANGED faultVars

NextConvert ==
    \/ UserStartConversion
    \/ ConvertRow
    \/ ConvertRaise
    \/ ConvertReturn
    \/ CancelConversion
    \/ DeliverConversionResult

SpecConvert == Init /\ [][NextConvert]_vars

\* ------------------------------------------------------- trace file text
HexChar == <<"0", "1", "2", "3", "4", "5", "6", "7", "8", "9", "A", "B", "C", "D", "E", "F">>

RECURSIVE HexDigits(_)
\* the digits of format(n, "X")
HexDigits(n) ==
    IF n < 16 THEN <<HexChar[n + 1]>>
              ELSE Append(HexDigits(n \div 16), HexChar[(n % 16) + 1])

RECURSIVE DecDigits(_)
\* the digits of str(n)
DecDigits(n) ==
    IF n < 10 THEN <<HexChar[n + 1]>>
              ELSE Append(DecDigits(n \div 10), HexChar[(n % 10) + 1])

RECURSIVE PadLeft(_, _, _)
\* a format width: pad on the left up to w characters, never cut
PadLeft(str, w, c) == IF Len(str) >= w THEN str ELSE PadLeft(<<c>> \o str, w, c)

RECURSIVE PadRight(_, _, _)
PadRight(str, w, c) == IF Len(str) >= w THEN str ELSE PadRight(Append(str, c), w, c)

Spaces(k) == [i \in 1..k |-> " "]

RECURSIVE DataStr(_)
\* " ".join(f"{b:02X}" for b in msg.DATA[:msg.LEN])
DataStr(data) ==
    IF data = <<>> THEN <<>>
    ELSE IF Len(data) = 1 THEN PadLeft(HexDigits(data[1]), 2, "0")
    ELSE PadLeft(HexDigits(data[1]), 2, "0") \o <<" ">> \o DataStr(Tail(data))

\* A frame: direction, ID, LEN and the first LEN bytes of DATA
Frame(tx, id, data) == [tx |-> tx, id |-> id, len |-> Len(data), data |-> data]

\* the row write_trc_entry writes, without its newline; offset_ms in tenths of a
\* millisecond:
\* f"{msg_num:6}){offset_ms:11.1f}  {direction:<3}        {msg.ID:04X}  {msg.LEN}  {data_str}"
TrcEntryText(msg_num, offset_tenths, msg) ==
    PadLeft(DecDigits(msg_num), 6, " ") \o <<")">>
    \o PadLeft(DecDigits(offset_tenths \div 10) \o <<".">> \o DecDigits(offset_tenths % 10),
               11, " ")
    \o Spaces(2) \o PadRight(IF msg.tx THEN <<"T", "x">> ELSE <<"R", "x">>, 3, " ")
    \o Spaces(8) \o PadLeft(HexDigits(msg.id), 4, "0")
    \o Spaces(2) \o DecDigits(msg.len)
    \o Spaces(2) \o DataStr(msg.data)

\* ---- the trace reader: a row taken apart by the columns of the row layout
\*   <seq>) <offset_ms:11.1f>  <Rx|Tx>        <ID:04X>  <LEN>  <bytes, 02X each>
\* columns 1-6 sequence number, 7 ")", 8-18 offset, 21-23 direction, 32-35 ID,
\* 38 length, 41 on the data bytes, three columns apiece
IsHex(c) == \E v \in 0..15 : HexChar[v + 1] = c
HexVal(c) == CHOOSE v \in 0..15 : HexChar[v + 1] = c

RECURSIVE HexNumber(_)
HexNumber(str) ==
    IF str = <<>> THEN 0
    ELSE 16 * HexNumber(SubSeq(str, 1, Len(str) - 1)) + HexVal(str[Len(str)])

Column(row, from, to) == SubSeq(row, from, IF to <= Len(row) THEN to ELSE Len(row))

Unparsed == [ok |-> FALSE, tx |-> FALSE, id |-> 0, len |-> 0, data |-> <<>>]

parse_trc_row(row) ==
    LET dir == Column(row, 21, 22)
        id == Column(row, 32, 35)
        len == Column(row, 38, 38)
        n == IF Len(len) = 1 /\ IsHex(len[1]) THEN HexVal(len[1]) ELSE 0
        byte(k) == Column(row, 41 + 3 * (k - 1), 42 + 3 * (k - 1))
        wellformed ==
            /\ dir \in {<<"R", "x">>, <<"T", "x">>}
            /\ Len(id) = 4 /\ \A i \in 1..4 : IsHex(id[i])
            /\ Len(len) = 1 /\ IsHex(len[1]) /\ HexVal(len[1]) <= 8
            /\ \A k \in 1..n : Len(byte(k)) = 2 /\ IsHex(byte(k)[1]) /\ IsHex(byte(k)[2])
    IN IF wellformed
         THEN [ok |-> TRUE, tx |-> (dir = <<"T", "x">>), id |-> HexNumber(id), len |-> n,
               data |-> [k \in 1..n |-> HexNumber(byte(k))]]
         ELSE Unparsed

\* IDs on the bus: 11-bit, 16-bit and 29-bit (extended frames)
TrcIDs == {0, 291, 2047, 65535, 65536, 419361024}
TrcBytes == {0, 10, 255}
TrcData == UNION {[1..n -> TrcBytes] : n \in 0..MaxDataLen}
TrcFrames == {Frame(tx, id, data) : tx \in BOOLEAN, id \in TrcIDs, data \in TrcData}

\* write_trc_entry(message_count, offset_sec, msg, tx) on an open log; rows are
\* FramePeriod us apart
WriteTrcEntry(msg) ==
    /\ Len(trc_frames) < MaxTrcFrames
    /\ trc_frames' = Append(trc_frames, msg)
    /\ trc_text' = Append(trc_text, TrcEntryText(Len(trc_frames) + 1,
                                                 (Len(trc_frames) * FramePeriod) \div 100, msg))
    /\ UNCHANGED trc_parsed
    /\ UNCHANGED <<readerVars, envVars, obsVars, sigq, statVars, traceVars, txVars,
                   connVars, logVars, worker_thread, progress_dialog, w_pc, rows_left,
                   rows_done, rows_at_cancel, w_outcome, w_events, w_pending,
                   conversions>>
    /\ UNCHANGED faultVars

HandlerWritesEntry == \E msg \in TrcFrames : WriteTrcEntry(msg)

\* the reader parses the next row of the file
ParseTrcRow ==
    /\ Len(trc_parsed) < Len(trc_text)
    /\ trc_parsed' = Append(trc_parsed, parse_trc_row(trc_text[Len(trc_parsed) + 1]))
    /\ UNCHANGED <<trc_frames, trc_text>>
    /\ UNCHANGED <<readerVars, envVars, obsVars, sigq, statVars, traceVars, txVars,
                   connVars, logVars, worker_thread, progress_dialog, w_pc, rows_left,
                   rows_done, rows_at_cancel, w_outcome, w_events, w_pending,
                   conversions>>
    /\ UNCHANGED faultVars

NextRoundTrip ==
    \/ HandlerWritesEntry
    \/ ParseTrcRow

SpecRoundTrip == Init /\ [][NextRoundTrip]_vars

\* ===================================================================== claims

\* C1: a worker that has never connected emits no status_changed event however
\* many Initialize attempts fail, and its first successful Initialize leaves
\* exactly one event emitted, status_changed(true).
C1_ReconnectSuppression ==
    [][ /\ (~ever_connected' => status_log' = <<>>)
        /\ (~ever_connected /\ ever_connected' => status_log' = <<TRUE>>)
        /\ (r_pc = "Initialize" /\ r_pc' = "loop" => status_log' = status_log) ]_vars

\* two failed attempts, then the first success: one event, true
C1_Witness ==
    /\ init_fails = 2
    /\ ever_connected
    /\ status_log = <<TRUE>>

\* C2: the status_changed events of one worker alternate true, false, true, ...
\* beginning with true.
C2_StatusAlternates ==
    \A i \in 1..Len(status_log) : status_log[i] = (i % 2 = 1)

\* a link loss, then a reconnect that succeeded after the worker had been
\* refused at least once: still one false between the two true events
C2_Witness ==
    /\ status_log = <<TRUE, FALSE, TRUE>>
    /\ init_faults > init_fails

\* C3 as stated: whenever Read ends in an error, by an error code or by an
\* exception, the worker takes the reconnect path: Uninitialize, not connected,
\* status_changed(false), and Initialize next.
C3_AnyReadErrorReconnects ==
    [][ /\ (r_pc = "Read" /\ r_pc' # "Read" /\ read_outcome' \in {"error", "raised"}
              => r_pc' = "UninitRead")
        /\ (r_pc = "UninitRead" /\ r_pc' # "UninitRead"
              => /\ ~connected'
                 /\ status_log' = Append(status_log, FALSE)
                 /\ r_pc' = "loop")
        /\ (r_pc = "loop" /\ r_pc' # "loop" /\ running /\ ~connected
              => r_pc' = "Initialize") ]_vars

\* C3 amended: a Read that raises takes the reconnect path; a Read that returns
\* an error code only emits error_occurred and leaves the worker connected, the
\* channel initialized and the status events as they were.
C3_ReadExceptionReconnects ==
    [][ /\ (r_pc = "Read" /\ r_pc' # "Read" /\ read_outcome' = "raised"
              => r_pc' = "UninitRead" /\ sigq' = Append(sigq, ErrorSig))
        /\ (r_pc = "UninitRead" /\ r_pc' # "UninitRead"
              => /\ ~connected'
                 /\ status_log' = Append(status_log, FALSE)
                 /\ sigq' = Append(sigq, StatusSig(FALSE))
                 /\ r_pc' = "loop")
        /\ (r_pc = "loop" /\ r_pc' # "loop" /\ running /\ ~connected
              => r_pc' = "Initialize")
        /\ (r_pc = "Read" /\ r_pc' # "Read" /\ read_outcome' = "error"
              => /\ r_pc' = "loop"
                 /\ connected' /\ hw_init' = hw_init
                 /\ status_log' = status_log
                 /\ sigq' = Append(sigq, ErrorSig)) ]_vars

\* after a Read that raised: channel uninitialized, worker not connected, false
\* reported, and the loop about to call Initialize
C3_Witness ==
    /\ r_pc = "loop" /\ running
    /\ read_outcome = "raised"
    /\ status_log = <<TRUE, FALSE>>
    /\ ~connected /\ ~hw_init

\* C4: no two driver calls overlap on the shared handle: the GUI thread issues
\* no Write and no Uninitialize while a call of the worker is in flight.
InCall == {"Initialize", "GetStatus", "UninitStatus", "Read", "UninitRead", "UninitExit"}

C4_OneHardwareCallAtATime ==
    [][ /\ (hw_writes' # hw_writes => r_pc \notin InCall)
        /\ (gui_pc = "wait" /\ gui_pc' = "idle" => r_pc \notin InCall) ]_vars

\* C5 as stated: with the timer ticking at a cadence finer than the cycle T, the
\* number of fires over the elapsed duration D is floor(D/T) +- 1, and each fire
\* is late against its ideal time (first fire + k*T) by at most one tick period.
C5_NoDrift ==
    ticks >= 1 =>
      LET T == transmit_table[1].cycle.v
          fires == hw_writes[1]
          D == now - T0
          ideal == (T0 + timer_phase) + (fires - 1) * T
      IN /\ fires >= (D \div T) - 1
         /\ fires <= (D \div T) + 1
         /\ last_send_times[1] - ideal <= timer_interval

\* C6: on a tick at time now while connected, a row fires iff it is enabled,
\* its cycle parses to a number > 0 and now - last_sent >= cycle; a row that
\* fires gets last_sent = now; any other row keeps last_sent and send count.
C6_FiresIffDue ==
    [][ ticks' = ticks + 1 =>
          \A r \in 1..Len(transmit_table) :
            LET c == transmit_table[r].cycle
                last == IF r \in DOMAIN last_send_times THEN last_send_times[r] ELSE 0
                due == /\ is_connected
                       /\ transmit_table[r].enabled
                       /\ c.ok /\ c.v > 0
                       /\ now' - last >= c.v
            IN /\ due => /\ hw_writes'[r] = hw_writes[r] + 1
                         /\ r \in DOMAIN last_send_times'
                         /\ last_send_times'[r] = now'
               /\ ~due => /\ hw_writes'[r] = hw_writes[r]
                          /\ (r \in DOMAIN last_send_times') = (r \in DOMAIN last_send_times)
                          /\ (r \in DOMAIN last_send_times
                                => last_send_times'[r] = last_send_times[r])
                          /\ transmit_table'[r].count = transmit_table[r].count ]_vars

\* row 1 has fired twice; row 2, enabled with a cycle that is no number, never
C6_Witness ==
    /\ is_connected
    /\ hw_writes[1] = 2
    /\ transmit_table[2].enabled /\ ~transmit_table[2].cycle.ok
    /\ hw_writes[2] = 0 /\ 2 \notin DOMAIN last_send_times

\* C7 as stated: cycle 100 ms, ticked every 10 ms for 1005 ms: exactly 10 fires.
C7_TenFires == (timer_interval = 10 /\ WindowOver) => hw_writes[1] = 10

\* C7 amended: the job fires on its first tick and every 100 ms after it, 11
\* times when the first tick comes within the first 5 ms of the window (ticks
\* at 0, 10, ..., 1000), 10 times otherwise.
C7_TenOrElevenFires ==
    /\ (timer_interval = 10 /\ ticks >= 1
          => hw_writes[1] = ((now - (T0 + timer_phase)) \div 100) + 1)
    /\ (timer_interval = 10 /\ WindowOver
          => hw_writes[1] = IF timer_phase <= 5 THEN 11 ELSE 10)

\* ticks at 0, 10, ..., 1000 ms: 11 fires
C7_Witness ==
    /\ timer_interval = 10 /\ WindowOver
    /\ timer_phase = 0 /\ ticks = 101 /\ hw_writes[1] = 11

\* C8: after any sequence of processed frames, the count kept for an ID is the
\* number of frames of that ID processed, and its cycle time is
\* max(0, t_last - t_previous) of its two latest frames (in thousandths of a
\* ms; 0 while only one frame was seen). IDs never seen have no entry.
C8_StatsCorrect ==
    \A id \in IDs :
      LET idx == {i \in 1..Len(rx_seen) : rx_seen[i][1] = id}
          last == CHOOSE i \in idx : \A j \in idx : j <= i
          before == idx \ {last}
          prev == CHOOSE i \in before : \A j \in before : j <= i
          delta == rx_seen[last][2] - rx_seen[prev][2]
      IN IF idx = {}
           THEN id \notin DOMAIN live_data
           ELSE /\ id \in DOMAIN live_data
                /\ live_data[id].count = Cardinality(idx)
                /\ live_data[id].cycle_time =
                     IF before = {} THEN 0
                     ELSE IF delta > 0 THEN delta ELSE 0

\* the same ID received twice 50 ms apart: count 2, cycle time 50 ms
C8_Witness ==
    /\ rx_seen = << <<291, 0>>, <<291, 50000>> >>
    /\ live_data[291].count = 2
    /\ live_data[291].cycle_time = 50 * 1000

\* C9 as stated: once the GUI has seen the status change to connected, the live
\* statistics hold entries only for IDs received since that connect, and every
\* count counts the frames received since that connect only.
C9_StatsResetOnConnect ==
    is_connected =>
      \A id \in DOMAIN live_data :
        LET idx == {i \in (connect_mark + 1)..Len(rx_seen) : rx_seen[i][1] = id}
        IN idx # {} /\ live_data[id].count = Cardinality(idx)

\* C10: the trace buffer (and the table it mirrors) never holds more than
\* TRACE_ROW_LIMIT rows, and once more rows than that have arrived and the
\* queue is drained it holds exactly the last TRACE_ROW_LIMIT rows in arrival
\* order.
C10_LastRowsKept ==
    /\ Len(trace_buffer) <= TRACE_ROW_LIMIT
    /\ Len(trace_table) <= TRACE_ROW_LIMIT
    /\ (pending_trace = <<>> /\ n_rows > TRACE_ROW_LIMIT
          => /\ Len(trace_buffer) = TRACE_ROW_LIMIT
             /\ \A i \in 1..TRACE_ROW_LIMIT :
                  trace_buffer[i].n = n_rows - TRACE_ROW_LIMIT + i
             /\ trace_table = trace_buffer)

\* more than a flush's worth of rows beyond the limit arrived, all drained
C10_Witness ==
    /\ pending_trace = <<>>
    /\ n_rows > TRACE_ROW_LIMIT + TRACE_ROWS_PER_FLUSH
    /\ Len(trace_buffer) = TRACE_ROW_LIMIT
    /\ trace_buffer[1].n = n_rows - TRACE_ROW_LIMIT + 1

\* C11: a flush moves at most TRACE_ROWS_PER_FLUSH rows, taken from the head of
\* the pending queue in order, to the end of the display buffer, none of them
\* reordered, duplicated or dropped; a row that arrives is appended to the
\* pending queue whatever the queue's length.
C11_FlushIsFifoBatch ==
    [][ /\ Len(pending_trace') < Len(pending_trace) =>
             LET k == Len(pending_trace) - Len(pending_trace')
                 all == trace_buffer \o SubSeq(pending_trace, 1, k)
                 from == IF Len(all) > TRACE_ROW_LIMIT
                           THEN Len(all) - TRACE_ROW_LIMIT + 1 ELSE 1
             IN /\ k <= TRACE_ROWS_PER_FLUSH
                /\ pending_trace' = SubSeq(pending_trace, k + 1, Len(pending_trace))
                /\ trace_buffer' = SubSeq(all, from, Len(all))
        /\ n_rows' = n_rows + 1 =>
             /\ Len(pending_trace') = Len(pending_trace) + 1
             /\ SubSeq(pending_trace', 1, Len(pending_trace)) = pending_trace
             /\ pending_trace'[Len(pending_trace')].n = n_rows + 1 ]_vars

\* a flush of a queue longer than one batch has moved rows 1..25 and left the rest
C11_Witness ==
    /\ Len(trace_buffer) = TRACE_ROWS_PER_FLUSH
    /\ trace_buffer[1].n = 1 /\ trace_buffer[TRACE_ROWS_PER_FLUSH].n = TRACE_ROWS_PER_FLUSH
    /\ pending_trace # <<>>
    /\ pending_trace[1].n = TRACE_ROWS_PER_FLUSH + 1

\* C12 as stated: every row pending when the flush timer fires is in the
\* display buffer after that flush, whatever the arrival pattern.
C12_FlushedByNextTick ==
    [][ Len(pending_trace') < Len(pending_trace) => pending_trace' = <<>> ]_vars

\* C13 as stated: once stop() has been requested and until run() returns, a
\* reader that is Connected
\* emits exactly one more status event, false, and ends not connected after
\* calling Uninitialize; a reader that is not Connected emits no status event.
C13_StopEmitsFinalFalse ==
    [][ (~running /\ r_pc # "none") =>
          /\ (connected /\ status_log' # status_log
                => status_log' = Append(status_log, FALSE) /\ ~connected')
          /\ (connected /\ r_pc # "none" /\ r_pc' = "none"
                => r_pc = "UninitExit" /\ status_log' = Append(status_log, FALSE))
          /\ (~connected => status_log' = status_log) ]_vars

\* C13 amended: as above, except that a reader that is not Connected when stop()
\* is requested and has an Initialize call under way connects if that call
\* succeeds, emitting true; it then exits as a Connected reader does.
C13_StopEmitsFinalFalseUnlessConnecting ==
    [][ (~running /\ r_pc # "none") =>
          /\ (connected /\ status_log' # status_log
                => status_log' = Append(status_log, FALSE) /\ ~connected')
          /\ (connected /\ r_pc # "none" /\ r_pc' = "none"
                => r_pc = "UninitExit" /\ status_log' = Append(status_log, FALSE))
          /\ (~connected /\ status_log' # status_log
                => /\ r_pc = "Initialize"
                   /\ status_log' = Append(status_log, TRUE)
                   /\ connected')
          /\ (~connected /\ r_pc # "none" /\ r_pc' = "none"
                => status_log' = status_log) ]_vars

\* stopped while connected, no driver fault: the exit code sent the one false
C13_Witness ==
    /\ ~running /\ r_pc = "none"
    /\ faults = 0 /\ init_faults = 0
    /\ status_log = <<TRUE, FALSE>>
    /\ ~connected /\ ~hw_init

\* C14: a Connected reader whose GetStatus returns abnormal or raises calls
\* Uninitialize next (no Read), then is not connected and has emitted
\* status_changed(false); while not connected its only driver call is
\* Initialize.
C14_LinkLossReconnects ==
    [][ /\ (r_pc = "GetStatus" /\ r_pc' # "GetStatus" /\ faults' # faults
              => connected /\ r_pc' = "UninitStatus")
        /\ (r_pc = "UninitStatus" /\ r_pc' # "UninitStatus"
              => /\ ~connected'
                 /\ status_log' = Append(status_log, FALSE)
                 /\ r_pc' = "loop")
        /\ (~connected => r_pc \in {"none", "loop", "Initialize"})
        /\ (~connected /\ r_pc = "loop" /\ running /\ r_pc' # r_pc
              => r_pc' = "Initialize") ]_vars

\* the link was lost at a status check, the reader has uninitialized, reported
\* false and is back at the top of its loop
C14_Witness ==
    /\ r_pc = "loop" /\ running /\ read_outcome = "none"
    /\ ~connected /\ ever_connected /\ ~hw_init
    /\ faults = 1
    /\ status_log = <<TRUE, FALSE>>

\* C15: an exception of Initialize, GetStatus or Read is turned into an
\* error_occurred event and leads to the not-connected branch of the loop
\* (after Uninitialize when the reader was connected), from which a running
\* reader calls Initialize again; run() returns only after stop().
C15_ExceptionsNeverEndLoop ==
    [][ /\ (r_pc = "Initialize" /\ r_pc' # r_pc /\ read_outcome' = "init_raised"
              => /\ sigq' = Append(sigq, ErrorSig)
                 /\ r_pc' = "loop" /\ ~connected')
        /\ (r_pc = "GetStatus" /\ r_pc' # r_pc /\ read_outcome' = "status_raised"
              => /\ sigq' = Append(sigq, ErrorSig)
                 /\ r_pc' = "UninitStatus")
        /\ (r_pc = "Read" /\ r_pc' # r_pc /\ read_outcome' = "raised"
              => /\ sigq' = Append(sigq, ErrorSig)
                 /\ r_pc' = "UninitRead")
        /\ (r_pc \in {"UninitStatus", "UninitRead"} /\ r_pc' # r_pc
              => r_pc' = "loop" /\ ~connected')
        /\ (r_pc = "loop" /\ running /\ ~connected /\ r_pc' # r_pc
              => r_pc' = "Initialize")
        /\ (r_pc # "none" /\ r_pc' = "none" => ~running) ]_vars

\* after a lost link, Initialize raised and the reader is still looping
C15_Witness ==
    /\ r_pc = "loop" /\ running
    /\ read_outcome = "init_raised"
    /\ status_log = <<TRUE, FALSE>>
    /\ ~connected

\* C16: a tick in which a Write fails (the row is attempted, its count stays)
\* leaves the reader's state and the window's connected flag as they are,
\* emits no event and does not uninitialize the channel.
C16_WriteFailureIsLocal ==
    [][ (\E r \in 1..Len(transmit_table) :
            /\ hw_writes'[r] # hw_writes[r]
            /\ transmit_table'[r].count = transmit_table[r].count)
        => UNCHANGED <<reader, r_pc, running, connected, ever_connected,
                       is_connected, status_log, sigq, hw_init>> ]_vars

\* a Write has failed and reader and window are still connected
C16_Witness ==
    /\ hw_writes[1] = 1 /\ transmit_table[1].count = 0
    /\ connected /\ is_connected /\ hw_init
    /\ status_log = <<TRUE>>

\* C17: a due row whose Write fails stays enabled with its cycle, its count is
\* not incremented, no Tx row of it is queued for the trace or written to the
\* log, and its next attempt is measured from this one: it is attempted again
\* at the first tick at which its own cycle has elapsed, and not before.
C17_FailedWriteRetriedOnSchedule ==
    [][ ticks' = ticks + 1 =>
          \A r \in 1..Len(transmit_table) :
            LET id == transmit_table[r].id
                new_rows == SubSeq(pending_trace', Len(pending_trace) + 1,
                                   Len(pending_trace'))
                new_lines == SubSeq(log_file', Len(log_file) + 1, Len(log_file'))
            IN /\ (hw_writes'[r] # hw_writes[r] /\ write_result'[r] # PCAN_ERROR_OK
                     => /\ transmit_table'[r] = transmit_table[r]
                        /\ transmit_table[r].enabled
                        /\ \A i \in 1..Len(new_rows) : new_rows[i].id # id
                        /\ \A i \in 1..Len(new_lines) : new_lines[i].id # id
                        /\ last_send_times'[r] = now')
               /\ (write_result[r] \notin {NoResult, PCAN_ERROR_OK}
                   /\ transmit_table[r].enabled /\ is_connected
                     => (hw_writes'[r] = hw_writes[r] + 1
                           <=> now' - last_send_times[r] >= transmit_table[r].cycle.v)) ]_vars

\* while recording, row 1's first Write failed and its retry went through:
\* one count, one Tx line in the log
C17_Witness ==
    /\ logging /\ is_connected
    /\ hw_writes[1] = 2 /\ write_result[1] = PCAN_ERROR_OK
    /\ transmit_table[1].enabled /\ transmit_table[1].count = 1
    /\ hw_writes[2] = 0
    /\ log_file = <<HeaderLine, FrameLine(1, "Tx", 291)>>

\* C18: in a tick while connected every row that is enabled, has a cycle > 0
\* and is due has its Write issued in that tick, whatever happens to the other
\* rows in the same tick; the rows are served in table order, so the Tx rows a
\* tick queues for the trace are in table order.
C18_EveryDueRowServedInOrder ==
    [][ (ticks' = ticks + 1 /\ is_connected) =>
          LET new_rows == SubSeq(pending_trace', Len(pending_trace) + 1,
                                 Len(pending_trace'))
              RowOf(id) == CHOOSE r \in 1..Len(transmit_table) :
                              transmit_table[r].id = id
              last(r) == IF r \in DOMAIN last_send_times THEN last_send_times[r] ELSE 0
          IN /\ \A r \in 1..Len(transmit_table) :
                  (/\ transmit_table[r].enabled
                   /\ transmit_table[r].cycle.ok
                   /\ transmit_table[r].cycle.v > 0
                   /\ now' - last(r) >= transmit_table[r].cycle.v)
                    => hw_writes'[r] = hw_writes[r] + 1
             /\ \A i, j \in 1..Len(new_rows) :
                  i < j => RowOf(new_rows[i].id) < RowOf(new_rows[j].id) ]_vars

\* both rows were due in one tick; row 1's Write failed, row 2's went through
C18_Witness ==
    /\ is_connected /\ ticks = 1
    /\ hw_writes[1] = 1 /\ write_result[1] # PCAN_ERROR_OK
    /\ hw_writes[2] = 1 /\ write_result[2] = PCAN_ERROR_OK
    /\ transmit_table[2].count = 1

C21_ArrivalOrderKept ==
    LET IsMsg(e) == e.type = "message"
        queued == SelectSeq(sigq, IsMsg)
        read == [i \in 1..(Len(rx_seen) + Len(queued)) |->
                   IF i <= Len(rx_seen) THEN rx_seen[i][2]
                   ELSE queued[i - Len(rx_seen)].ts]
        rows == trace_buffer \o pending_trace
    IN /\ Len(read) = frames_read
       /\ \A i \in 1..Len(read) : read[i] = (i - 1) * FramePeriod
       /\ (logging /\ closed_logs = <<>> /\ n_rows <= TRACE_ROW_LIMIT
             => /\ Len(log_file) = Len(rows)
                /\ \A i \in 2..Len(rows) :
                     IF rows[i].dir = "!"
                       THEN log_file[i] = CommentLine(rows[i].text)
                       ELSE /\ log_file[i].kind = "frame"
                            /\ log_file[i].dir = rows[i].dir
                            /\ log_file[i].id = rows[i].id)

\* two frames read and processed in order, a frame sent between them, all three
\* in the log in that order
C21_Witness ==
    /\ frames_read = 2 /\ Len(rx_seen) = 2
    /\ log_file = <<HeaderLine, FrameLine(1, "Rx", 291), FrameLine(2, "Tx", 291),
                    FrameLine(3, "Rx", 291)>>

\* C26: a Read that returns PCAN_ERROR_QRCVEMPTY emits no message, status or
\* error event, and the reader is Connected before it and after it.
C26_EmptyReadIsSilent ==
    [][(r_pc = "Read" /\ read_outcome' = "empty")
         => /\ sigq' = sigq
            /\ status_log' = status_log
            /\ connected /\ connected'
            /\ r_pc' = "loop"]_vars
C26_Witness == r_pc = "loop" /\ read_outcome = "empty" /\ connected /\ sigq = <<>>

\* C28: during a session the sequence counter advances by exactly the number
\* of frame rows (Rx, or Tx after a successful Write) a step appends to the log
\* file; a step that appends a connect/disconnect event row leaves it as it was,
\* so the frame rows on either side of an event row carry consecutive numbers.
C28_EventRowsTakeNoNumber ==
    [][LET IsFrame(l) == l.kind = "frame"
           appended == SubSeq(log_file', Len(log_file) + 1, Len(log_file'))
       IN /\ Len(log_file') >= Len(log_file)
          /\ SubSeq(log_file', 1, Len(log_file)) = log_file
          /\ message_count' = message_count + Len(SelectSeq(appended, IsFrame))
          /\ \A i \in 1..Len(appended) :
                IsFrame(appended[i]) =>
                  appended[i].num = message_count + Len(SelectSeq(SubSeq(appended, 1, i), IsFrame))]_vars
C28_Witness ==
    \E i \in 1..Len(log_file) :
        /\ i + 3 <= Len(log_file)
        /\ log_file[i].kind = "frame"
        /\ log_file[i + 1] = CommentLine("DISCONNECTED")
        /\ log_file[i + 2] = CommentLine("CONNECTED")
        /\ log_file[i + 3].kind = "frame"
        /\ log_file[i + 3].num = log_file[i].num + 1

\* C29: every Write the transmit scheduler issues happens while the channel is
\* initialized and the reader is Connected.
C29_WritesOnlyWhileInitialized ==
    [][hw_writes' # hw_writes => (hw_init /\ connected)]_vars

\* C27: once stop() has been called on a running worker, run() eventually
\* returns with connected = false, wherever the loop was. The signal queue,
\* unbounded in the program, holds MaxQueue events here; the reader emits at most
\* three more (true, error, false) while the window waits for it, so the
\* property is stated for a queue with that much room.
C27_StopEndsLoop ==
    (~running /\ r_pc # "none" /\ sigq = <<>>) ~> (r_pc = "none" /\ ~connected)
C27_Witness ==
    /\ gui_pc = "wait" /\ ~running /\ r_pc = "none" /\ ~connected
    /\ status_log = <<TRUE, FALSE>> /\ frames_read > 0 /\ ~hw_init

\* C30: when a transmit row is removed, every remaining job (told apart by its
\* CAN id) has the last-sent time it had before the removal.
C30_RemovalKeepsOtherJobs ==
    [][Len(transmit_table') < Len(transmit_table)
         => \A i \in 1..Len(transmit_table'), j \in 1..Len(transmit_table) :
               transmit_table'[i].id = transmit_table[j].id
                 => LastSent(last_send_times', i) = LastSent(last_send_times, j)]_vars

\* C22: a run of WorkerThread has emitted nothing while its task is running,
\* and once run() has returned it has emitted exactly one signal: finished if
\* the task returned, error if it raised.
C22_ExactlyOneOutcome ==
    /\ w_pc = "func" => w_events = <<>>
    /\ w_pc = "done" =>
          \/ w_outcome = "returned" /\ w_events = <<"finished">>
          \/ w_outcome = "raised" /\ w_events = <<"error">>
C22_Witness ==
    /\ conversions = 2 /\ w_pc = "done"
    /\ w_outcome = "raised" /\ rows_done > 0 /\ rows_left > 0
    /\ w_events = <<"error">>

\* C23: once Cancel has been pressed the task stops at the next row boundary:
\* it finishes at most the row it was working on.
C23_CancelStopsAtRowBoundary ==
    progress_dialog = "canceled" => rows_done <= rows_at_cancel + 1

\* C25: every row parsed back from the trace file gives the direction, ID,
\* length and data bytes of the frame that was written at its place.
C25_RoundTrip ==
    \A i \in 1..Len(trc_parsed) :
        /\ trc_parsed[i].ok
        /\ trc_parsed[i].tx = trc_frames[i].tx
        /\ trc_parsed[i].id = trc_frames[i].id
        /\ trc_parsed[i].len = trc_frames[i].len
        /\ trc_parsed[i].data = trc_frames[i].data

\* C24: when a handler's writes to the log file raise during a session (a
\* received frame, a sent frame, a status event), each failed write is reported
\* in the status bar, the handler still runs to its end (its trace rows are
\* queued), nothing reaches the file, and the session stays as it was: still
\* logging, its handler still open, so that the next row is attempted too.
C24_WriteFailureReported ==
    [][LET sent == {r \in 1..Len(transmit_table) :
                       transmit_table'[r].count # transmit_table[r].count}
           attempts == (IF rx_seen' # rx_seen THEN 1 ELSE 0)
                       + (IF is_connected' # is_connected THEN 1 ELSE 0)
                       + Cardinality(sent)
       IN (logging /\ log_start_time # None /\ WriteFails /\ attempts > 0)
            => /\ log_fail_reports' = log_fail_reports + attempts
               /\ n_rows' = n_rows + attempts
               /\ log_file' = log_file
               /\ logging' /\ log_handler' = log_handler]_vars
\* two frames lost to failed writes, both reported, and the third written
C24_Witness ==
    /\ logging /\ log_fail_reports = 2
    /\ log_file = <<HeaderLine, FrameLine(3, "Rx", 291)>>

\* C36: a worker that is connected has connected before; ever_connected, once
\* set, stays set for the life of the worker; and a worker emits
\* status_changed(false) only with ever_connected set and a status_changed(true)
\* emitted before it.
C36_EverConnectedIsMonotonic ==
    /\ [](connected => ever_connected)
    /\ [][/\ (ever_connected /\ readers_started' = readers_started) => ever_connected'
          /\ (Len(status_log') > Len(status_log) /\ ~status_log'[Len(status_log')])
                => (ever_connected /\ \E i \in 1..Len(status_log) : status_log[i])]_vars
C36_Witness ==
    /\ ever_connected /\ ~connected /\ r_pc = "Initialize"
    /\ status_log = <<TRUE, FALSE>>

\* C34: the worker calls Read only straight after a GetStatus that returned
\* OK, while Connected; and when it emits a frame, it is Connected and the last
\* status event it emitted is status_changed(true).
C34_FramesOnlyWhileConnected ==
    [][/\ (r_pc # "Read" /\ r_pc' = "Read")
            => (r_pc = "GetStatus" /\ connected /\ connected')
       /\ (frames_read' # frames_read)
            => /\ r_pc = "Read" /\ connected /\ connected'
               /\ status_log # <<>> /\ status_log[Len(status_log)]
               /\ status_log' = status_log]_vars
\* a frame emitted after a link loss and the reconnect
C34_Witness ==
    /\ status_log = <<TRUE, FALSE, TRUE>>
    /\ frames_read = 1 /\ read_outcome = "ok"

\* C35: a timeout of the transmit timer while the window is not connected
\* issues no Write and leaves every row's last-sent time, send count and check
\* box as they were.
C35_IdleTickDoesNothing ==
    [][(ticks' # ticks /\ ~is_connected)
         => /\ hw_writes' = hw_writes
            /\ write_result' = write_result
            /\ last_send_times' = last_send_times
            /\ transmit_table' = transmit_table
            /\ pending_trace' = pending_trace]_vars
\* timeouts have passed, not connected, with a row that is enabled and due
C35_Witness ==
    /\ ~is_connected /\ ticks = 2
    /\ \E row \in 1..Len(transmit_table) : Due(transmit_table, last_send_times, row, now)
    /\ \A row \in 1..Len(transmit_table) : hw_writes[row] = 0

\* C31: during a recording, every step that takes the window from connected to
\* not connected appends exactly one disconnect event row to the log file.
C31_DisconnectRowPerTransition ==
    [][(logging /\ log_handler # None /\ log_writable /\ is_connected /\ ~is_connected')
         => log_file' = Append(log_file, CommentLine("DISCONNECTED"))]_vars

\* C33: a link loss and the reconnect after it leave the recording session as
\* it was: the step in which the window learns of either keeps the session
\* logging with the same open file, the same start times, the same counter and
\* no file closed, and adds nothing to the file but the one event row; so the
\* file of a session always has its one header, on its first line, and its
\* frame rows are numbered 1, 2, ... up to the counter, in order, whatever
\* event rows lie between them.
C33_LinkLossKeepsSession ==
    /\ [](logging =>
            LET IsFrame(l) == l.kind = "frame"
                frames == SelectSeq(log_file, IsFrame)
            IN /\ log_handler # None /\ header_written
               /\ log_file # <<>> /\ log_file[1] = HeaderLine
               /\ \A i \in 2..Len(log_file) : log_file[i] # HeaderLine
               /\ Len(frames) = message_count
               /\ \A i \in 1..Len(frames) : frames[i].num = i)
    /\ [][(logging /\ is_connected' # is_connected)
           => /\ logging' /\ log_handler' = log_handler
              /\ header_written' = header_written
              /\ log_start_time' = log_start_time
              /\ recording_start_time' = recording_start_time
              /\ message_count' = message_count
              /\ closed_logs' = closed_logs
              /\ log_file' = Append(log_file,
                     CommentLine(IF is_connected' THEN "CONNECTED" ELSE "DISCONNECTED"))]_vars
\* a frame logged, the link lost and found again, and the next frame logged with
\* the next number in the same file
C33_Witness ==
    /\ logging /\ is_connected /\ connected /\ message_count = 2
    /\ closed_logs = <<>>
    /\ log_file = <<HeaderLine, FrameLine(1, "Rx", 291), CommentLine("DISCONNECTED"),
                    CommentLine("CONNECTED"), FrameLine(2, "Rx", 291)>>

\* C32: the log handler is open exactly while the window is logging, and while
\* it is not logging (after stop_logging, after a start_logging that failed) no
\* step writes a frame row or an event row to a log file.
C32_RowsOnlyWhileLogging ==
    /\ []((log_handler # None) <=> logging)
    /\ [][~logging =>
            \A i \in 1..Len(log_file') :
                log_file'[i].kind \in {"frame", "comment"}
                  => (i <= Len(log_file) /\ log_file[i] = log_file'[i])]_vars

====
